---- MODULE Spec2Model ----
(***************************************************************************)
(* Model of the visa-monitor monitoring engine.                            *)
(*                                                                         *)
(* The repository holds two builds of class VisaMonitor:                   *)
(*   - src/visa-monitor.js  ("universal" build): one browser pool with an  *)
(*     inUse flag per entry, run under a cloud or a local profile;         *)
(*   - src/server.js:331    ("rotation" build): one pool per country with  *)
(*     rate-limit flags per entry.                                         *)
(* Definitions prefixed VM_ model src/visa-monitor.js, definitions         *)
(* prefixed SV_ model src/server.js.  The variable profile, fixed by Init, *)
(* says which build and which profile a behaviour is about.                *)
(*                                                                         *)
(* One action is one run of the event loop between two awaits: whatever    *)
(* the code does synchronously after an awaited promise settles is part    *)
(* of the same action.                                                     *)
(***************************************************************************)
EXTENDS Integers, Sequences, FiniteSets, TLC

\* ------------------------------------------------------------------------
\* Bounds of the model
\* ------------------------------------------------------------------------
MaxTime == 3        \* the clock runs over 1..MaxTime (one unit = TimeUnit ms)
MaxEvents == 3      \* start() calls, stop() calls and timer firings in one behaviour

\* ------------------------------------------------------------------------
\* Data
\* ------------------------------------------------------------------------
Countries == {"spain", "italy"}
CountryOrder == <<"spain", "italy">>

\* The applications table: four records, two for spain, one for italy and
\* one whose country has no entry in countryConfigs (the table accepts any
\* text).  Tables: the sets of records that are active when the engine is
\* built.  The rotation build keeps one pool per country and is run over
\* the applications of one country at a time.
Apps == {1, 2, 3, 4}
Tables(p) == IF p = "rotation" THEN {{}, {1}, {1, 2}, {3}, {4}}
             ELSE {{}, {1}, {1, 2}, {1, 3}, {4}}
country == [a \in Apps |-> IF a = 3 THEN "italy"
                           ELSE IF a = 4 THEN "france" ELSE "spain"]
auto_book == [a \in Apps |-> a # 2]

\* One clock unit, in milliseconds; 10 * 60 * 1000 ms is the cooldown.
TimeUnit == 10 * 60 * 1000
cooldownPeriod == (10 * 60 * 1000) \div TimeUnit

NULL == 0
NoLease == <<>>

VARIABLES
    profile,        \* "cloud" | "local" (visa-monitor.js) | "rotation" (server.js)
    now,            \* Date.now(), in clock units
    isRunning, monitorInterval, startTime, stats, lastActivity,
    browserPool,    \* visa-monitor.js: this.browserPool
    browserPools,   \* server.js: this.browserPools[country]
    status, attempts, slots_found, activity_logs,   \* the database
    notifications,  \* the alerts handed to notifier.notify()
    timers,         \* the setInterval handles that are live
    launched,       \* browsers puppeteer.launch returned
    closeInvoked,   \* browsers on which close() was invoked
    closeFailed,    \* browsers whose close() threw
    events,         \* the start() calls, stop() calls and timer firings so far
    starts,         \* the start() invocations
    stops,          \* the stop() invocations
    ticks,          \* the timer callbacks
    batches,        \* the processCountryApplications* invocations
    probe           \* a booking page and what attemptBooking() made of it

engineVars == <<isRunning, monitorInterval, startTime, stats, lastActivity,
                browserPool, browserPools, timers>>
dbVars == <<status, attempts, slots_found, activity_logs>>
browserVars == <<launched, closeInvoked, closeFailed>>
procVars == <<events, starts, stops, ticks, batches>>
vars == <<profile, now, engineVars, dbVars, notifications, browserVars, procVars, probe>>

isCloud == profile = "cloud"
VM == profile \in {"cloud", "local"}
SV == profile = "rotation"

maxBrowsers == IF isCloud THEN 1 ELSE 3
maxBrowsersPerCountry == 3

\* A call or a timer firing is named by its rank among the events.
EventIds == 1..MaxEvents
StartIds == EventIds
StopIds == EventIds
TickIds == EventIds
BatchIds == TickIds \X Countries

\* ------------------------------------------------------------------------
\* Helpers
\* ------------------------------------------------------------------------
RECURSIVE InsertStable(_, _, _)
InsertStable(x, s, f) ==
    IF s = <<>> THEN <<x>>
    ELSE IF Head(s)[f] <= x[f] THEN <<Head(s)>> \o InsertStable(x, Tail(s), f)
    ELSE <<x>> \o s

RECURSIVE SortAcc(_, _, _)
SortAcc(acc, rest, f) ==
    IF rest = <<>> THEN acc
    ELSE SortAcc(InsertStable(Head(rest), acc, f), Tail(rest), f)

\* Array.prototype.sort((a, b) => a[f] - b[f]): ascending and stable.
SortBy(s, f) == SortAcc(<<>>, s, f)

Ids(s) == {s[k].id : k \in DOMAIN s}

\* database.js getActiveApplications: the active rows, ORDER BY priority
\* DESC, created_at ASC.  The records were created in the order of their
\* ids, with the default priority.
priority == [a \in Apps |-> 1]
Before(a, b) == priority[a] > priority[b] \/ (priority[a] = priority[b] /\ a < b)

RECURSIVE OrderedRows(_)
OrderedRows(S) ==
    IF S = {} THEN <<>>
    ELSE LET m == CHOOSE x \in S : \A y \in S \ {x} : Before(x, y)
         IN <<m>> \o OrderedRows(S \ {m})

getActiveApplications == OrderedRows({a \in Apps : status[a] = "active"})

\* A variant of AppsOf that returns the applications of the country last
\* first.
AppsOf_lastFirst(apps, c) ==
    LET sel == SelectSeq(apps, LAMBDA a : country[a] = c)
    IN [k \in DOMAIN sel |-> sel[Len(sel) + 1 - k]]

AppsOf(apps, c) == SelectSeq(apps, LAMBDA a : country[a] = c)

logActivity(a, c, action) == [app |-> a, country |-> c, action |-> action]

getActiveCountries ==
    IF VM THEN (IF isRunning THEN Countries ELSE {})
    ELSE {c \in Countries : Len(browserPools[c]) > 0}

\* ------------------------------------------------------------------------
\* Initial state: the engine as constructed, over some applications table
\* ------------------------------------------------------------------------
NoStart == [pc |-> "idle", apps |-> <<>>, country |-> "spain", i |-> 0,
            created |-> 0, viaStop |-> FALSE]
NoStop == [pc |-> "idle", country |-> "spain", idx |-> 0, live |-> TRUE,
           arr |-> <<>>, cur |-> NoLease]
NoTick == [pc |-> "idle", apps |-> <<>>]
\* Of a batch, besides its position: ops, the calls it made to take and to
\* give back a browser; page, whether a page one of its checks opened was
\* left without a close(); raised, the applications whose check threw;
\* throttled, those whose check met the throttling marker.
NoBatch == [pc |-> "none", applications |-> <<>>, i |-> 0, lease |-> NoLease,
            idle |-> FALSE, dead |-> FALSE, page |-> FALSE, raised |-> {},
            throttled |-> {}, ops |-> <<>>]

\* The booking page as attemptBooking() meets it.  slotClick: the click on
\* the first slot succeeds; values: the fields of the form the application
\* has a value for; present: the fields the page shows; bookingButton: the
\* booking control is missing, present, or present with a click that
\* fails; confirmation: the confirmation indicator appears within the wait.
Fields == {"first_name", "email", "address"}
BookingPages ==
    [slotClick : BOOLEAN, values : SUBSET Fields, present : SUBSET Fields,
     bookingButton : {"missing", "present", "click_fails"}, confirmation : BOOLEAN]
NoPage == [slotClick |-> FALSE, values |-> {}, present |-> {},
           bookingButton |-> "missing", confirmation |-> FALSE]
NoOutcome == [raised |-> FALSE, value |-> FALSE, typed |-> {}]
NoProbe == [pc |-> "none", page |-> NoPage, outcome |-> NoOutcome]

InitEngine ==
    /\ profile \in {"cloud", "local", "rotation"}
    /\ now = 1
    /\ isRunning = FALSE
    /\ monitorInterval = NULL
    /\ startTime = NULL
    /\ stats = [c \in Countries |-> [checks |-> 0, slotsFound |-> 0, bookings |-> 0]]
    /\ lastActivity = NULL
    /\ browserPool = <<>>
    /\ browserPools = [c \in Countries |-> <<>>]
    /\ \E S \in Tables(profile) :
         status = [a \in Apps |-> IF a \in S THEN "active" ELSE "completed"]
    /\ attempts = [a \in Apps |-> 0]
    /\ slots_found = [a \in Apps |-> 0]
    /\ activity_logs = {}
    /\ notifications = {}
    /\ timers = {}
    /\ launched = {}
    /\ closeInvoked = {}
    /\ closeFailed = {}
    /\ events = 0
    /\ starts = [c \in StartIds |-> NoStart]
    /\ stops = [c \in StopIds |-> NoStop]
    /\ ticks = [k \in TickIds |-> NoTick]
    /\ batches = [b \in BatchIds |-> NoBatch]

Init == InitEngine /\ probe = NoProbe

\* ------------------------------------------------------------------------
\* start()
\* ------------------------------------------------------------------------
BrowserId(c, pool, i) == <<c, pool, i>>

StartInProgress(c) == starts[c].pc \in {"fetch", "test", "create", "delay"}

\* An event arrives: it gets the next rank, and the clock may have advanced
\* since the event before it.
Event(c) ==
    /\ events < MaxEvents
    /\ c = events + 1
    /\ events' = c
    /\ now' \in now..MaxTime

\* A variant of start_enter whose guard reads the timer handle instead of
\* the running flag.
start_enter_guardOnTimer(c) ==
    /\ Event(c)
    /\ IF monitorInterval # NULL
       THEN /\ starts' = [starts EXCEPT ![c].pc = "rejected"]
            /\ UNCHANGED <<isRunning, startTime>>
       ELSE /\ isRunning' = TRUE
            /\ startTime' = now'
            /\ starts' = [starts EXCEPT ![c].pc = "fetch"]
    /\ UNCHANGED <<profile, probe, notifications, monitorInterval, stats, lastActivity, browserPool,
                   browserPools, timers, dbVars, browserVars, stops, ticks, batches>>

\* start(), up to its first await: the isRunning guard, then the flag and
\* the start time are set.
start_enter(c) ==
    /\ Event(c)
    /\ IF isRunning
       THEN /\ starts' = [starts EXCEPT ![c].pc = "rejected"]
            /\ UNCHANGED <<isRunning, startTime>>
       ELSE /\ isRunning' = TRUE
            /\ startTime' = now'
            /\ starts' = [starts EXCEPT ![c].pc = "fetch"]
    /\ UNCHANGED <<profile, probe, notifications, monitorInterval, stats, lastActivity, browserPool,
                   browserPools, timers, dbVars, browserVars, stops, ticks, batches>>

\* startMonitoringLoop(): setInterval, the handle stored in monitorInterval.
\* The handle of start call c is c.
startMonitoringLoop(c) ==
    /\ monitorInterval' = c
    /\ timers' = timers \cup {c}

\* server.js start(), past the empty-list test: the pool of spain when
\* spain has applications, else the pool of italy when italy has some, else
\* (without an await) startMonitoringLoop().
SV_start_pools(c, apps) ==
    IF AppsOf(apps, "spain") # <<>> \/ AppsOf(apps, "italy") # <<>>
    THEN /\ starts' = [starts EXCEPT ![c].pc = "create", ![c].apps = apps,
                           ![c].i = 0,
                           ![c].country = IF AppsOf(apps, "spain") # <<>>
                                          THEN "spain" ELSE "italy"]
         /\ UNCHANGED <<monitorInterval, timers>>
    ELSE /\ startMonitoringLoop(c)
         /\ starts' = [starts EXCEPT ![c].pc = "ok", ![c].apps = apps]

\* A variant of start_fetch that does not throw on an empty list.
start_fetch_noThrow(c) ==
    /\ starts[c].pc = "fetch"
    /\ LET apps == getActiveApplications
       IN IF VM
          THEN /\ starts' = [starts EXCEPT ![c].pc = "test", ![c].apps = apps]
               /\ UNCHANGED <<monitorInterval, timers>>
          ELSE SV_start_pools(c, apps)
    /\ UNCHANGED <<profile, probe, notifications, now, events, isRunning, startTime, stats, lastActivity,
                   browserPool, browserPools, dbVars, browserVars, stops, ticks,
                   batches>>

\* start() resumed with the active applications: throws on an empty list.
start_fetch(c) ==
    /\ starts[c].pc = "fetch"
    /\ LET apps == getActiveApplications
       IN IF Len(apps) = 0
          THEN /\ starts' = [starts EXCEPT ![c].pc = "failed_noapps"]
               /\ UNCHANGED <<monitorInterval, timers>>
          ELSE IF VM
          THEN /\ starts' = [starts EXCEPT ![c].pc = "test", ![c].apps = apps]
               /\ UNCHANGED <<monitorInterval, timers>>
          ELSE SV_start_pools(c, apps)
    /\ UNCHANGED <<profile, probe, notifications, now, events, isRunning, startTime, stats, lastActivity,
                   browserPool, browserPools, dbVars, browserVars, stops, ticks,
                   batches>>

\* visa-monitor.js testBrowserCapability(): a browser is launched, a page is
\* opened outside the try, the navigation test runs inside it and the
\* browser is closed in the finally.  Any failure makes start() throw.
VM_testBrowserCapability(c) ==
    /\ VM
    /\ starts[c].pc = "test"
    /\ \E outcome \in {"launch_failed", "newPage_failed", "test_failed", "ok"} :
        LET id == BrowserId(c, "test", 0)
        IN /\ launched' = IF outcome = "launch_failed" THEN launched
                          ELSE launched \cup {id}
           /\ closeInvoked' = IF outcome \in {"test_failed", "ok"}
                              THEN closeInvoked \cup {id} ELSE closeInvoked
           /\ starts' = IF outcome = "ok"
                        THEN [starts EXCEPT ![c].pc = "create", ![c].i = 0]
                        ELSE [starts EXCEPT ![c].pc = "failed_browser"]
    /\ UNCHANGED <<profile, probe, notifications, now, events, engineVars, dbVars, closeFailed, stops, ticks, batches>>

\* A variant of VM_initializeBrowserPool in which a browser that cannot be
\* created makes start() throw.
VM_initializeBrowserPool_fatal(c) ==
    /\ VM
    /\ starts[c].pc = "create"
    /\ LET i == starts[c].i
           id == BrowserId(c, "pool", i)
           last == ~(i + 1 < maxBrowsers)
       IN \E ok \in BOOLEAN :
           /\ browserPool' = IF ok
                             THEN Append(browserPool,
                                         [id |-> id, index |-> i, lastUsed |-> 0,
                                          inUse |-> FALSE])
                             ELSE browserPool
           /\ launched' = IF ok THEN launched \cup {id} ELSE launched
           /\ IF ~ok
              THEN /\ starts' = [starts EXCEPT ![c].pc = "failed_browser"]
                   /\ UNCHANGED <<monitorInterval, timers>>
              ELSE IF last
              THEN /\ startMonitoringLoop(c)
                   /\ starts' = [starts EXCEPT ![c].pc = "ok",
                                     ![c].created = @ + (IF ok THEN 1 ELSE 0)]
              ELSE /\ starts' = [starts EXCEPT ![c].i = i + 1,
                                     ![c].created = @ + (IF ok THEN 1 ELSE 0)]
                   /\ UNCHANGED <<monitorInterval, timers>>
    /\ UNCHANGED <<profile, probe, notifications, now, events, isRunning, startTime, stats, lastActivity,
                   browserPools, dbVars, closeInvoked, closeFailed, stops, ticks,
                   batches>>

\* visa-monitor.js initializeBrowserPool(), one iteration: createBrowser(i)
\* settles.  A browser that was created is pushed; a failure is logged and
\* the loop goes on.  After the last iteration start() goes on, without an
\* await, to startMonitoringLoop().
VM_initializeBrowserPool(c) ==
    /\ VM
    /\ starts[c].pc = "create"
    /\ LET i == starts[c].i
           id == BrowserId(c, "pool", i)
           last == ~(i + 1 < maxBrowsers)
       IN \E ok \in BOOLEAN :
           /\ browserPool' = IF ok
                             THEN Append(browserPool,
                                         [id |-> id, index |-> i, lastUsed |-> 0,
                                          inUse |-> FALSE])
                             ELSE browserPool
           /\ launched' = IF ok THEN launched \cup {id} ELSE launched
           /\ IF last
              THEN /\ startMonitoringLoop(c)
                   /\ starts' = [starts EXCEPT ![c].pc = "ok",
                                     ![c].created = @ + (IF ok THEN 1 ELSE 0)]
              ELSE /\ starts' = [starts EXCEPT ![c].i = i + 1,
                                     ![c].created = @ + (IF ok THEN 1 ELSE 0)]
                   /\ UNCHANGED <<monitorInterval, timers>>
    /\ UNCHANGED <<profile, probe, notifications, now, events, isRunning, startTime, stats, lastActivity,
                   browserPools, dbVars, closeInvoked, closeFailed, stops, ticks,
                   batches>>

\* server.js start(), after the pool of starts[c].country: the pool of italy
\* when spain was done and italy has applications, else the timer.
SV_start_continue(c, created) ==
    IF starts[c].country = "spain" /\ AppsOf(starts[c].apps, "italy") # <<>>
    THEN /\ starts' = [starts EXCEPT ![c].pc = "create", ![c].country = "italy",
                           ![c].i = 0, ![c].created = created]
         /\ UNCHANGED <<monitorInterval, timers>>
    ELSE /\ startMonitoringLoop(c)
         /\ starts' = [starts EXCEPT ![c].pc = "ok", ![c].created = created]

\* server.js initializeBrowserPool(country), one iteration:
\* createStealthBrowser(i) settles.  After a push the loop awaits a delay,
\* also after the last one; after a failure it goes on at once.
SV_initializeBrowserPool(c) ==
    /\ SV
    /\ starts[c].pc = "create"
    /\ LET i == starts[c].i
           co == starts[c].country
           id == BrowserId(c, co, i)
           last == ~(i + 1 < maxBrowsersPerCountry)
       IN \E ok \in BOOLEAN :
           LET created == starts[c].created + (IF ok THEN 1 ELSE 0)
           IN /\ browserPools' =
                    IF ok
                    THEN [browserPools EXCEPT ![co] =
                            Append(@, [id |-> id, country |-> co, index |-> i,
                                       lastUsed |-> 0, rateLimited |-> FALSE,
                                       rateLimitedUntil |-> 0])]
                    ELSE browserPools
              /\ launched' = IF ok THEN launched \cup {id} ELSE launched
              /\ IF ~last
                 THEN /\ starts' = [starts EXCEPT ![c].i = i + 1,
                                        ![c].created = created]
                      /\ UNCHANGED <<monitorInterval, timers>>
                 ELSE IF ok
                 THEN /\ starts' = [starts EXCEPT ![c].pc = "delay",
                                        ![c].created = created]
                      /\ UNCHANGED <<monitorInterval, timers>>
                 ELSE SV_start_continue(c, created)
    /\ UNCHANGED <<profile, probe, notifications, now, events, isRunning, startTime, stats, lastActivity,
                   browserPool, dbVars, closeInvoked, closeFailed, stops, ticks,
                   batches>>

\* server.js: the delay after the last push of a pool has elapsed.
SV_start_delay(c) ==
    /\ SV
    /\ starts[c].pc = "delay"
    /\ SV_start_continue(c, starts[c].created)
    /\ UNCHANGED <<profile, probe, notifications, now, events, isRunning, startTime, stats, lastActivity,
                   browserPool, browserPools, dbVars, browserVars, stops, ticks,
                   batches>>

\* ------------------------------------------------------------------------
\* stop()
\* ------------------------------------------------------------------------
IdSeq(pool) == [k \in DOMAIN pool |-> pool[k].id]

\* stop() past its guard: the flag is cleared and the timer is cancelled.
stop_flags ==
    /\ isRunning' = FALSE
    /\ timers' = IF monitorInterval # NULL THEN timers \ {monitorInterval} ELSE timers
    /\ monitorInterval' = NULL
    /\ starts' = [s \in StartIds |->
                    IF StartInProgress(s) THEN [starts[s] EXCEPT !.viaStop = TRUE]
                    ELSE starts[s]]

\* The array a stop() iterates was replaced by `= []` in another stop():
\* that stop() goes on over the array object it holds.
Detach(c, co, pool) ==
    [s \in StopIds |->
        IF s # c /\ stops[s].pc = "closing" /\ stops[s].live /\ stops[s].country = co
        THEN [stops[s] EXCEPT !.live = FALSE, !.arr = IdSeq(pool)]
        ELSE stops[s]]

\* A variant of VM_stop without the isRunning guard.
VM_stop_noGuard(c) ==
    /\ VM
    /\ Event(c)
    /\ stop_flags
    /\ IF browserPool = <<>>
       THEN /\ stops' = [stops EXCEPT ![c].pc = "done"]
            /\ UNCHANGED <<browserPool, closeInvoked>>
       ELSE /\ stops' = [stops EXCEPT ![c].pc = "closing", ![c].idx = 1,
                             ![c].cur = browserPool[1].id]
            /\ closeInvoked' = closeInvoked \cup {browserPool[1].id}
            /\ UNCHANGED browserPool
    /\ UNCHANGED <<profile, probe, notifications, startTime, stats, lastActivity, browserPools, dbVars,
                   launched, closeFailed, ticks, batches>>

\* visa-monitor.js stop(), up to its first await: returns at once when not
\* running, else clears the flag and the timer and invokes close() on the
\* first pool entry (or empties an empty pool and returns).
VM_stop(c) ==
    /\ VM
    /\ Event(c)
    /\ IF ~isRunning
       THEN /\ stops' = [stops EXCEPT ![c].pc = "noop"]
            /\ UNCHANGED <<isRunning, timers, monitorInterval, starts, browserPool,
                           closeInvoked>>
       ELSE /\ stop_flags
            /\ IF browserPool = <<>>
               THEN /\ stops' = [stops EXCEPT ![c].pc = "done"]
                    /\ UNCHANGED <<browserPool, closeInvoked>>
               ELSE /\ stops' = [stops EXCEPT ![c].pc = "closing", ![c].idx = 1,
                                     ![c].cur = browserPool[1].id]
                    /\ closeInvoked' = closeInvoked \cup {browserPool[1].id}
                    /\ UNCHANGED browserPool
    /\ UNCHANGED <<profile, probe, notifications, startTime, stats, lastActivity, browserPools, dbVars,
                   launched, closeFailed, ticks, batches>>

\* visa-monitor.js stop(), one iteration of the closing loop: the awaited
\* close() settles (an error is caught and logged), close() is invoked on
\* the next entry of the array; after the last one the pool is emptied.
VM_stop_close(c) ==
    /\ VM
    /\ stops[c].pc = "closing"
    /\ LET arr == IF stops[c].live THEN IdSeq(browserPool) ELSE stops[c].arr
           idx == stops[c].idx
       IN /\ \E ok \in BOOLEAN :
                closeFailed' = IF ok THEN closeFailed
                               ELSE closeFailed \cup {stops[c].cur}
          /\ IF idx + 1 <= Len(arr)
             THEN /\ closeInvoked' = closeInvoked \cup {arr[idx + 1]}
                  /\ stops' = [stops EXCEPT ![c].idx = idx + 1, ![c].cur = arr[idx + 1]]
                  /\ UNCHANGED browserPool
             ELSE /\ browserPool' = <<>>
                  /\ stops' = [Detach(c, "spain", browserPool) EXCEPT ![c].pc = "done"]
                  /\ UNCHANGED closeInvoked
    /\ UNCHANGED <<profile, probe, notifications, now, events, isRunning, monitorInterval, startTime, stats,
                   lastActivity, browserPools, timers, dbVars, launched, starts, ticks,
                   batches>>

\* server.js stop(): the loop over the countries goes on with the pool of
\* country number p, skipping (and re-emptying) the empty pools.
SV_stop_pools(c, p, pools, st) ==
    LET rest == {q \in p..Len(CountryOrder) : pools[CountryOrder[q]] # <<>>}
    IN IF rest = {}
       THEN /\ stops' = [st EXCEPT ![c].pc = "done"]
            /\ UNCHANGED closeInvoked
       ELSE LET q == CHOOSE q \in rest : \A r \in rest : q <= r
                co == CountryOrder[q]
            IN /\ stops' = [st EXCEPT ![c].pc = "closing", ![c].country = co,
                                ![c].idx = 1, ![c].live = TRUE,
                                ![c].cur = pools[co][1].id]
               /\ closeInvoked' = closeInvoked \cup {pools[co][1].id}

CountryIndex(co) == CHOOSE q \in DOMAIN CountryOrder : CountryOrder[q] = co

\* server.js stop(), up to its first await.
SV_stop(c) ==
    /\ SV
    /\ Event(c)
    /\ IF ~isRunning
       THEN /\ stops' = [stops EXCEPT ![c].pc = "noop"]
            /\ UNCHANGED <<isRunning, timers, monitorInterval, starts, closeInvoked>>
       ELSE /\ stop_flags
            /\ SV_stop_pools(c, 1, browserPools, stops)
    /\ UNCHANGED <<profile, probe, notifications, startTime, stats, lastActivity, browserPool,
                   browserPools, dbVars, launched, closeFailed, ticks, batches>>

\* server.js stop(), one iteration of the inner closing loop.
SV_stop_close(c) ==
    /\ SV
    /\ stops[c].pc = "closing"
    /\ LET co == stops[c].country
           arr == IF stops[c].live THEN IdSeq(browserPools[co]) ELSE stops[c].arr
           idx == stops[c].idx
           emptied == [browserPools EXCEPT ![co] = <<>>]
       IN /\ \E ok \in BOOLEAN :
                closeFailed' = IF ok THEN closeFailed
                               ELSE closeFailed \cup {stops[c].cur}
          /\ IF idx + 1 <= Len(arr)
             THEN /\ closeInvoked' = closeInvoked \cup {arr[idx + 1]}
                  /\ stops' = [stops EXCEPT ![c].idx = idx + 1, ![c].cur = arr[idx + 1]]
                  /\ UNCHANGED browserPools
             ELSE /\ browserPools' = emptied
                  /\ SV_stop_pools(c, CountryIndex(co) + 1, emptied,
                                   Detach(c, co, browserPools[co]))
    /\ UNCHANGED <<profile, probe, notifications, now, events, isRunning, monitorInterval, startTime, stats,
                   lastActivity, browserPool, timers, dbVars, launched, starts, ticks,
                   batches>>

\* ------------------------------------------------------------------------
\* The pool: acquire, release, rate limiting
\* ------------------------------------------------------------------------
\* visa-monitor.js getAvailableBrowser(): the least recently used entry that
\* is not in use, marked in use; when every entry is in use, the pool is
\* sorted in place and its first entry is returned as it is (undefined when
\* the pool is empty).
VM_getAvailableBrowser(pool, t) ==
    LET availableBrowsers == SelectSeq(pool, LAMBDA b : ~b.inUse)
    IN IF Len(availableBrowsers) = 0
       THEN LET sorted == SortBy(pool, "lastUsed")
            IN [pool |-> sorted,
                lease |-> IF sorted = <<>> THEN NoLease ELSE sorted[1].id,
                idle |-> FALSE]
       ELSE LET browser == SortBy(availableBrowsers, "lastUsed")[1]
            IN [pool |-> [k \in DOMAIN pool |->
                            IF pool[k].id = browser.id
                            THEN [pool[k] EXCEPT !.lastUsed = t, !.inUse = TRUE]
                            ELSE pool[k]],
                lease |-> browser.id,
                idle |-> TRUE]

\* A variant of releaseBrowser() that leaves the entry as it is.
VM_releaseBrowser_keepInUse(pool, id) == pool

\* visa-monitor.js releaseBrowser(): inUse = false on the entry object (which
\* may have left the pool since).
VM_releaseBrowser(pool, id) ==
    [k \in DOMAIN pool |->
        IF pool[k].id = id THEN [pool[k] EXCEPT !.inUse = FALSE] ELSE pool[k]]

\* A variant of the cooldown test that lets the entry through at the very
\* end of the cooldown.
SV_cooldownExpired_atEnd(b, t) == t - b.rateLimitedUntil >= cooldownPeriod

\* server.js getNextBrowser(), the filter: an entry whose cooldown has
\* passed is made available again as the filter visits it.
SV_cooldownExpired(b, t) == t - b.rateLimitedUntil > cooldownPeriod

SV_filtered(pool, t) ==
    [k \in DOMAIN pool |->
        IF pool[k].rateLimited /\ SV_cooldownExpired(pool[k], t)
        THEN [pool[k] EXCEPT !.rateLimited = FALSE, !.rateLimitedUntil = 0]
        ELSE pool[k]]

\* A variant of getNextBrowser() that returns null when every entry is
\* rate limited.
SV_getNextBrowser_nullWhenLimited(pool, t) ==
    LET visited == SV_filtered(pool, t)
        availableBrowsers == SelectSeq(visited, LAMBDA b : ~b.rateLimited)
    IN IF Len(availableBrowsers) = 0
       THEN [pool |-> visited, lease |-> NoLease, idle |-> FALSE]
       ELSE LET browser == SortBy(availableBrowsers, "lastUsed")[1]
            IN [pool |-> [k \in DOMAIN visited |->
                            IF visited[k].id = browser.id
                            THEN [visited[k] EXCEPT !.lastUsed = t]
                            ELSE visited[k]],
                lease |-> browser.id,
                idle |-> TRUE]

\* server.js getNextBrowser(): null on an empty pool; else the least
\* recently used entry that is not rate limited; when all are, the pool is
\* sorted in place by rateLimitedUntil and its first entry is returned.
SV_getNextBrowser(pool, t) ==
    IF Len(pool) = 0
    THEN [pool |-> pool, lease |-> NoLease, idle |-> FALSE]
    ELSE LET visited == SV_filtered(pool, t)
             availableBrowsers == SelectSeq(visited, LAMBDA b : ~b.rateLimited)
         IN IF Len(availableBrowsers) = 0
            THEN LET sorted == SortBy(visited, "rateLimitedUntil")
                 IN [pool |-> sorted, lease |-> sorted[1].id, idle |-> FALSE]
            ELSE LET browser == SortBy(availableBrowsers, "lastUsed")[1]
                 IN [pool |-> [k \in DOMAIN visited |->
                                 IF visited[k].id = browser.id
                                 THEN [visited[k] EXCEPT !.lastUsed = t]
                                 ELSE visited[k]],
                     lease |-> browser.id,
                     idle |-> TRUE]

\* A variant of markBrowserRateLimited() that keeps the time of the first
\* marking when the entry is rate limited already.
SV_markBrowserRateLimited_keepTime(pool, browserIndex, t) ==
    LET hits == {k \in DOMAIN pool : pool[k].index = browserIndex}
    IN IF hits = {} THEN pool
       ELSE LET k0 == CHOOSE k \in hits : \A j \in hits : k <= j
            IN IF pool[k0].rateLimited THEN pool
               ELSE [pool EXCEPT ![k0] = [@ EXCEPT !.rateLimited = TRUE,
                                                   !.rateLimitedUntil = t]]

\* server.js markBrowserRateLimited(): the first pool entry with the index
\* is marked, its rateLimitedUntil set to the current time.
SV_markBrowserRateLimited(pool, browserIndex, t) ==
    LET hits == {k \in DOMAIN pool : pool[k].index = browserIndex}
    IN IF hits = {} THEN pool
       ELSE LET k0 == CHOOSE k \in hits : \A j \in hits : k <= j
            IN [pool EXCEPT ![k0] = [@ EXCEPT !.rateLimited = TRUE,
                                             !.rateLimitedUntil = t]]

\* ------------------------------------------------------------------------
\* The timer callback and the batches of visa-monitor.js
\* ------------------------------------------------------------------------
\* The setInterval callback, up to its first await: nothing when the engine
\* is not running, else the active applications are asked for.
timer_fire(k) ==
    /\ timers # {}
    /\ Event(k)
    /\ ticks' = [ticks EXCEPT ![k].pc = IF isRunning THEN "fetch" ELSE "skipped"]
    /\ UNCHANGED <<profile, probe, notifications, engineVars, dbVars, browserVars, starts, stops,
                   batches>>

InFlight(b) == batches[b].pc = "check"
BatchActive(b) == batches[b].pc \in {"scheduled", "check", "delay"}
CurrentApp(b) == batches[b].applications[batches[b].i]

\* processCountryApplications(), up to its first await: the browser is
\* taken, the first application's check begins.  With an empty pool the
\* browser is undefined: reading its index throws, and so does the
\* releaseBrowser(undefined) of the finally, so the call rejects.
VM_begin(applications, pool, t) ==
    LET got == VM_getAvailableBrowser(pool, t)
    IN [pool |-> got.pool,
        batch |-> IF got.lease = NoLease
                  THEN [NoBatch EXCEPT !.pc = "threw", !.applications = applications]
                  ELSE [NoBatch EXCEPT !.pc = "check", !.applications = applications,
                                       !.i = 1, !.lease = got.lease,
                                       !.idle = got.idle,
                                       !.ops = <<"acquire">>,
                                       !.dead = got.lease \in closeInvoked]]

MONITORING_ERROR == logActivity(NULL, "system", "MONITORING_ERROR")

\* The timer callback resumed with the active applications.  Cloud profile:
\* the spain batch is started and awaited (italy's when spain has none).
\* Local profile: both batches are started and awaited together.  A batch
\* that rejects ends the callback in its catch, which logs the error.
VM_tick_fetch(k) ==
    /\ VM
    /\ ticks[k].pc = "fetch"
    /\ LET activeApps == getActiveApplications
           spainApps == AppsOf(activeApps, "spain")
           italyApps == AppsOf(activeApps, "italy")
           s == VM_begin(spainApps, browserPool, now)
           i0 == VM_begin(italyApps, browserPool, now)
           i1 == VM_begin(italyApps, s.pool, now)
       IN IF isCloud
          THEN IF Len(spainApps) > 0
               THEN /\ browserPool' = s.pool
                    /\ batches' = [batches EXCEPT ![<<k, "spain">>] = s.batch]
                    /\ ticks' = [ticks EXCEPT ![k].apps = activeApps,
                                      ![k].pc = IF s.batch.pc = "threw" THEN "done"
                                                ELSE "spain"]
                    /\ activity_logs' = IF s.batch.pc = "threw"
                                        THEN activity_logs \cup {MONITORING_ERROR}
                                        ELSE activity_logs
               ELSE IF Len(italyApps) > 0
               THEN /\ browserPool' = i0.pool
                    /\ batches' = [batches EXCEPT ![<<k, "italy">>] = i0.batch]
                    /\ ticks' = [ticks EXCEPT ![k].apps = activeApps,
                                      ![k].pc = IF i0.batch.pc = "threw" THEN "done"
                                                ELSE "italy"]
                    /\ activity_logs' = IF i0.batch.pc = "threw"
                                        THEN activity_logs \cup {MONITORING_ERROR}
                                        ELSE activity_logs
               ELSE /\ ticks' = [ticks EXCEPT ![k].pc = "done"]
                    /\ UNCHANGED <<browserPool, batches, activity_logs>>
          ELSE LET sb == IF Len(spainApps) > 0 THEN s.batch ELSE NoBatch
                   it == IF Len(spainApps) > 0 THEN i1 ELSE i0
                   ib == IF Len(italyApps) > 0 THEN it.batch ELSE NoBatch
                   pool == IF Len(italyApps) > 0 THEN it.pool
                           ELSE IF Len(spainApps) > 0 THEN s.pool ELSE browserPool
                   threw == sb.pc = "threw" \/ ib.pc = "threw"
                   none == Len(spainApps) = 0 /\ Len(italyApps) = 0
               IN /\ browserPool' = pool
                  /\ batches' = [batches EXCEPT ![<<k, "spain">>] = sb,
                                                ![<<k, "italy">>] = ib]
                  /\ ticks' = [ticks EXCEPT ![k].apps = activeApps,
                                    ![k].pc = IF threw \/ none THEN "done" ELSE "all"]
                  /\ activity_logs' = IF threw
                                      THEN activity_logs \cup {MONITORING_ERROR}
                                      ELSE activity_logs
    /\ UNCHANGED <<profile, probe, notifications, now, events, isRunning, monitorInterval, startTime, stats,
                   lastActivity, browserPools, timers, status, attempts, slots_found,
                   browserVars, starts, stops>>

\* Cloud profile: the gap between the countries has elapsed, the italy
\* batch is started and awaited.
VM_tick_gap(k) ==
    /\ VM
    /\ ticks[k].pc = "gap"
    /\ LET it == VM_begin(AppsOf(ticks[k].apps, "italy"), browserPool, now)
       IN /\ browserPool' = it.pool
          /\ batches' = [batches EXCEPT ![<<k, "italy">>] = it.batch]
          /\ ticks' = [ticks EXCEPT ![k].pc = IF it.batch.pc = "threw" THEN "done"
                                              ELSE "italy"]
          /\ activity_logs' = IF it.batch.pc = "threw"
                              THEN activity_logs \cup {MONITORING_ERROR}
                              ELSE activity_logs
    /\ UNCHANGED <<profile, probe, notifications, now, events, isRunning, monitorInterval, startTime, stats,
                   lastActivity, browserPools, timers, status, attempts, slots_found,
                   browserVars, starts, stops>>

\* ------------------------------------------------------------------------
\* One application's check (processApplicationWithBrowser)
\* ------------------------------------------------------------------------
\* What the page and the site hold for a check: whether newPage() and the
\* configuration of the page succeed, how the login goes, where the
\* throttling marker shows, what the slot check finds, whether the
\* application has auto_book set and what attemptBooking() returns.
CheckInputsOf(autoBook) ==
    [newPage : BOOLEAN, configure : BOOLEAN, login : {"ok", "fails"},
     throttledAt : {"none", "login", "slots"}, slots : {"true", "false", "fails"},
     auto_book : {autoBook}, booking : BOOLEAN]
CheckInputs == CheckInputsOf(TRUE) \cup CheckInputsOf(FALSE)

\* A variant of the try block that goes on to the slot check after a
\* login that failed.
processApplication_try_loginOptional(inp) ==
    LET calls == <<"newPage", "configure", "loginToSite", "checkAppointmentSlots">>
    IN IF ~inp.newPage
       THEN [calls |-> SubSeq(calls, 1, 1), outcome |-> "newPage_failed"]
       ELSE IF ~inp.configure
       THEN [calls |-> SubSeq(calls, 1, 2), outcome |-> "configure_failed"]
       ELSE IF SV /\ inp.throttledAt = "login"
       THEN [calls |-> SubSeq(calls, 1, 3), outcome |-> "throttled"]
       ELSE IF SV /\ inp.throttledAt = "slots"
       THEN [calls |-> calls, outcome |-> "throttled"]
       ELSE IF inp.slots = "fails"
       THEN [calls |-> calls, outcome |-> "slots_failed"]
       ELSE IF inp.slots = "false"
       THEN [calls |-> calls, outcome |-> "no_slots"]
       ELSE IF ~inp.auto_book
       THEN [calls |-> calls \o <<"incrementSlotsFound">>, outcome |-> "slots_found"]
       ELSE IF ~inp.booking
       THEN [calls |-> calls \o <<"incrementSlotsFound", "attemptBooking">>,
             outcome |-> "slots_found"]
       ELSE [calls |-> calls \o <<"incrementSlotsFound", "attemptBooking",
                                  "markCompleted">>,
             outcome |-> "booked"]

\* The try block of processApplicationWithBrowser(): the calls it makes,
\* in order, and what it meets.  Each call is awaited, so one that throws
\* ends the block; server.js throws on the throttling marker after the
\* navigation of the login and of the slot check; the booking is attempted
\* when slots were found and auto_book is set, markCompleted() is called
\* when attemptBooking() returned true.
processApplication_try(inp) ==
    LET calls == <<"newPage", "configure", "loginToSite", "checkAppointmentSlots">>
    IN IF ~inp.newPage
       THEN [calls |-> SubSeq(calls, 1, 1), outcome |-> "newPage_failed"]
       ELSE IF ~inp.configure
       THEN [calls |-> SubSeq(calls, 1, 2), outcome |-> "configure_failed"]
       ELSE IF SV /\ inp.throttledAt = "login"
       THEN [calls |-> SubSeq(calls, 1, 3), outcome |-> "throttled"]
       ELSE IF inp.login = "fails"
       THEN [calls |-> SubSeq(calls, 1, 3), outcome |-> "login_failed"]
       ELSE IF SV /\ inp.throttledAt = "slots"
       THEN [calls |-> calls, outcome |-> "throttled"]
       ELSE IF inp.slots = "fails"
       THEN [calls |-> calls, outcome |-> "slots_failed"]
       ELSE IF inp.slots = "false"
       THEN [calls |-> calls, outcome |-> "no_slots"]
       ELSE IF ~inp.auto_book
       THEN [calls |-> calls \o <<"incrementSlotsFound">>, outcome |-> "slots_found"]
       ELSE IF ~inp.booking
       THEN [calls |-> calls \o <<"incrementSlotsFound", "attemptBooking">>,
             outcome |-> "slots_found"]
       ELSE [calls |-> calls \o <<"incrementSlotsFound", "attemptBooking",
                                  "markCompleted">>,
             outcome |-> "booked"]

\* What a check can meet.  newPage_failed, login_failed: an exception of
\* newPage() or loginToSite(); configure_failed: an exception of
\* configurePage() or configureBrowserFingerprint(), on the page newPage()
\* returned; slots_failed: an exception of the slot
\* check; throttled: the throttling marker at login or at the appointment
\* page; no_slots; slots_found: slots seen and no booking confirmed;
\* booked: slots seen and the booking confirmed.  On a browser that was
\* closed before the check began newPage() can only fail.
Outcomes(b) ==
    IF batches[b].dead THEN {"newPage_failed"}
    ELSE {processApplication_try(inp).outcome :
            inp \in CheckInputsOf(auto_book[CurrentApp(b)])}

Found(outcome) == outcome \in {"slots_found", "booked"}

\* The outcomes that leave the try block of the check by an exception:
\* visa-monitor.js checkAppointmentSlots() returns false on its own
\* exceptions, server.js checkAppointmentSlots() rethrows them.
VM_Raising == {"newPage_failed", "configure_failed", "login_failed"}
SV_Raising == {"newPage_failed", "configure_failed", "login_failed", "slots_failed",
               "throttled"}

Bump(f, c, field) == [f EXCEPT ![c][field] = @ + 1]

\* A variant of CheckEffects that completes the application as soon as
\* slots are seen.
CheckEffects_completeOnFound(a, co, found, booked, completed) ==
    /\ slots_found' = IF found THEN [slots_found EXCEPT ![a] = @ + 1] ELSE slots_found
    /\ status' = IF found THEN [status EXCEPT ![a] = "completed"] ELSE status
    /\ stats' = LET s1 == IF found THEN Bump(stats, co, "slotsFound") ELSE stats
                    s2 == IF booked THEN Bump(s1, co, "bookings") ELSE s1
                IN IF completed THEN Bump(s2, co, "checks") ELSE s2

\* The effects of a check on the database and on the statistics, for both
\* builds: counters and SLOTS_FOUND entry when slots are seen, status,
\* counter and BOOKING_SUCCESS entry when the booking is confirmed, the
\* check counter when the end of the try block is reached.
CheckEffects(a, co, found, booked, completed) ==
    /\ slots_found' = IF found THEN [slots_found EXCEPT ![a] = @ + 1] ELSE slots_found
    /\ status' = IF booked THEN [status EXCEPT ![a] = "completed"] ELSE status
    /\ stats' = LET s1 == IF found THEN Bump(stats, co, "slotsFound") ELSE stats
                    s2 == IF booked THEN Bump(s1, co, "bookings") ELSE s1
                IN IF completed THEN Bump(s2, co, "checks") ELSE s2

CheckLogs(a, co, found, booked) ==
    (IF found THEN {logActivity(a, co, "SLOTS_FOUND")} ELSE {})
    \cup (IF booked THEN {logActivity(a, co, "BOOKING_SUCCESS")} ELSE {})

\* A variant of sendNotification() that calls the notifier in every profile.
sendNotification_always(a, co, eventType) ==
    {[app |-> a, country |-> co, event |-> eventType]}

\* sendNotification(): the desktop notification.  visa-monitor.js calls
\* notifier.notify() unless isCloud is set, server.js calls it always; the
\* console line that follows is not modelled.
sendNotification(a, co, eventType) ==
    IF VM /\ isCloud THEN {}
    ELSE {[app |-> a, country |-> co, event |-> eventType]}

\* The notifications of a check: one after the SLOTS_FOUND entry, one after
\* the BOOKING_SUCCESS entry.
CheckNotifications(a, co, found, booked) ==
    (IF found THEN sendNotification(a, co, "slots_found") ELSE {})
    \cup (IF booked THEN sendNotification(a, co, "booking_success") ELSE {})

\* visa-monitor.js processApplicationWithBrowser(): checkAppointmentSlots()
\* turns its own exceptions into false; every other exception is caught by
\* the catch of the check, which writes to the console only; the finally
\* closes the page.  The call never rejects.
VM_processApplicationWithBrowser(b, outcome) ==
    LET a == CurrentApp(b)
        co == b[2]
        raised == outcome \in VM_Raising
    IN /\ CheckEffects(a, co, Found(outcome), outcome = "booked", ~raised)
       /\ activity_logs' = activity_logs
                           \cup CheckLogs(a, co, Found(outcome), outcome = "booked")
       /\ notifications' =
            notifications
            \cup CheckNotifications(a, co, Found(outcome), outcome = "booked")

\* A variant of VM_tick_after that ends the callback with the first batch
\* that ends.
VM_tick_after_first(k, co) == "done"

\* The timer callback once batch <<k, co>> has ended.
VM_tick_after(k, co) ==
    IF ticks[k].pc = "done" THEN "done"
    ELSE IF isCloud
    THEN IF co = "spain" /\ Len(AppsOf(ticks[k].apps, "italy")) > 0
         THEN "gap" ELSE "done"
    ELSE IF \E o \in Countries \ {co} : BatchActive(<<k, o>>) THEN "all" ELSE "done"

\* A variant of VM_check that leaves the attempts as they are when the
\* check threw.
VM_check_noAttemptOnError(b) ==
    /\ VM
    /\ batches[b].pc = "check"
    /\ \E outcome \in Outcomes(b) :
        /\ VM_processApplicationWithBrowser(b, outcome)
        /\ attempts' = IF outcome \in VM_Raising THEN attempts
                       ELSE [attempts EXCEPT ![CurrentApp(b)] = @ + 1]
        /\ IF batches[b].i < Len(batches[b].applications)
           THEN /\ batches' = [batches EXCEPT ![b].pc = "delay",
                                    ![b].raised = IF outcome \in VM_Raising
                                                  THEN @ \cup {CurrentApp(b)} ELSE @]
                /\ UNCHANGED <<browserPool, lastActivity, ticks>>
           ELSE /\ batches' = [batches EXCEPT ![b].pc = "done",
                                    ![b].ops = Append(@, "release"),
                                    ![b].raised = IF outcome \in VM_Raising
                                                  THEN @ \cup {CurrentApp(b)} ELSE @]
                /\ browserPool' = VM_releaseBrowser(browserPool, batches[b].lease)
                /\ lastActivity' = now
                /\ ticks' = [ticks EXCEPT ![b[1]].pc = VM_tick_after(b[1], b[2])]
    /\ UNCHANGED <<profile, probe, now, events, isRunning, monitorInterval, startTime,
                   browserPools, timers, browserVars, starts, stops>>

\* visa-monitor.js processCountryApplications(), one iteration: the check
\* returns, incrementAttempts is called, then the delay before the next
\* application; after the last one the browser is released, lastActivity
\* is set and the timer callback goes on.
VM_check(b) ==
    /\ VM
    /\ batches[b].pc = "check"
    /\ \E outcome \in Outcomes(b) :
        /\ VM_processApplicationWithBrowser(b, outcome)
        /\ attempts' = [attempts EXCEPT ![CurrentApp(b)] = @ + 1]
        /\ IF batches[b].i < Len(batches[b].applications)
           THEN /\ batches' = [batches EXCEPT ![b].pc = "delay",
                                    ![b].raised = IF outcome \in VM_Raising
                                                  THEN @ \cup {CurrentApp(b)} ELSE @]
                /\ UNCHANGED <<browserPool, lastActivity, ticks>>
           ELSE /\ batches' = [batches EXCEPT ![b].pc = "done",
                                    ![b].ops = Append(@, "release"),
                                    ![b].raised = IF outcome \in VM_Raising
                                                  THEN @ \cup {CurrentApp(b)} ELSE @]
                /\ browserPool' = VM_releaseBrowser(browserPool, batches[b].lease)
                /\ lastActivity' = now
                /\ ticks' = [ticks EXCEPT ![b[1]].pc = VM_tick_after(b[1], b[2])]
    /\ UNCHANGED <<profile, probe, now, events, isRunning, monitorInterval, startTime,
                   browserPools, timers, browserVars, starts, stops>>

\* The delay between two applications has elapsed: the next check begins,
\* on the same browser.
VM_batch_next(b) ==
    /\ VM
    /\ batches[b].pc = "delay"
    /\ batches' = [batches EXCEPT ![b].pc = "check", ![b].i = @ + 1,
                                  ![b].dead = batches[b].lease \in closeInvoked]
    /\ UNCHANGED <<profile, probe, notifications, now, events, engineVars, dbVars, browserVars, starts,
                   stops, ticks>>

\* ------------------------------------------------------------------------
\* The timer callback and the batches of server.js
\* ------------------------------------------------------------------------
\* The timer callback resumed with the active applications: one timeout
\* per country that has some, 0 ms for spain and 3000 ms for italy.
SV_tick_fetch(k) ==
    /\ SV
    /\ ticks[k].pc = "fetch"
    /\ LET activeApps == getActiveApplications
           sched(co) == IF Len(AppsOf(activeApps, co)) > 0
                        THEN [NoBatch EXCEPT !.pc = "scheduled",
                                             !.applications = AppsOf(activeApps, co)]
                        ELSE NoBatch
       IN /\ batches' = [batches EXCEPT ![<<k, "spain">>] = sched("spain"),
                                        ![<<k, "italy">>] = sched("italy")]
          /\ ticks' = [ticks EXCEPT ![k].pc = "done", ![k].apps = activeApps]
    /\ UNCHANGED <<profile, probe, notifications, now, events, engineVars, dbVars, browserVars, starts,
                   stops>>

\* processCountryApplicationsWithRotation(), from application number i on,
\* up to its next await: a browser is asked for; with none the application
\* is skipped, and so are the ones after it; with one the check begins.
\* After the last application lastActivity is set.
SV_iterate(b, i) ==
    LET co == b[2]
        got == SV_getNextBrowser(browserPools[co], now)
    IN IF i <= Len(batches[b].applications) /\ got.lease # NoLease
       THEN /\ browserPools' = [browserPools EXCEPT ![co] = got.pool]
            /\ batches' = [batches EXCEPT ![b].pc = "check", ![b].i = i,
                                ![b].lease = got.lease, ![b].idle = got.idle,
                                ![b].ops = Append(@, "acquire"),
                                ![b].dead = got.lease \in closeInvoked]
            /\ UNCHANGED lastActivity
       ELSE /\ batches' = [batches EXCEPT ![b].pc = "done"]
            /\ lastActivity' = now
            /\ UNCHANGED browserPools

\* The timeout of a batch fires (spain's before italy's).
SV_batch_start(b) ==
    /\ SV
    /\ batches[b].pc = "scheduled"
    /\ b[2] = "italy" => batches[<<b[1], "spain">>].pc # "scheduled"
    /\ SV_iterate(b, 1)
    /\ UNCHANGED <<profile, probe, notifications, now, events, isRunning, monitorInterval, startTime, stats,
                   browserPool, timers, dbVars, browserVars, starts, stops, ticks>>

\* server.js createFreshPage(): the page newPage() returned reaches the
\* check only when configureBrowserFingerprint() returned too; when that
\* throws, createFreshPage() rethrows, the check's `page` stays null and its
\* finally has nothing to close.
SV_pageLeft(outcome) == outcome = "configure_failed"

\* server.js processApplicationWithBrowser(): checkAppointmentSlots()
\* rethrows; the catch of the check marks the browser rate limited when
\* the error is the throttling one (and logs BROWSER_RATE_LIMITED), else
\* writes to the console only; the finally closes the page.  The call
\* never rejects.
SV_processApplicationWithBrowser(b, outcome) ==
    LET a == CurrentApp(b)
        co == b[2]
        raised == outcome \in SV_Raising
        marked == SV_markBrowserRateLimited(browserPools[co], batches[b].lease[3], now)
    IN /\ CheckEffects(a, co, Found(outcome), outcome = "booked", ~raised)
       /\ browserPools' = IF outcome = "throttled"
                          THEN [browserPools EXCEPT ![co] = marked]
                          ELSE browserPools
       /\ activity_logs' =
            activity_logs
            \cup CheckLogs(a, co, Found(outcome), outcome = "booked")
            \cup (IF outcome = "throttled" /\ marked # browserPools[co]
                  THEN {logActivity(NULL, co, "BROWSER_RATE_LIMITED")} ELSE {})
       /\ notifications' =
            notifications
            \cup CheckNotifications(a, co, Found(outcome), outcome = "booked")

\* processCountryApplicationsWithRotation(), one iteration: the check
\* returns, incrementAttempts is called, then the delay.
SV_check(b) ==
    /\ SV
    /\ batches[b].pc = "check"
    /\ \E outcome \in Outcomes(b) :
        /\ SV_processApplicationWithBrowser(b, outcome)
        /\ attempts' = [attempts EXCEPT ![CurrentApp(b)] = @ + 1]
        /\ batches' = [batches EXCEPT ![b].pc = "delay",
                            ![b].page = @ \/ SV_pageLeft(outcome),
                            ![b].throttled = IF outcome = "throttled"
                                             THEN @ \cup {CurrentApp(b)} ELSE @,
                            ![b].raised = IF outcome \in SV_Raising \ {"throttled"}
                                          THEN @ \cup {CurrentApp(b)} ELSE @]
    /\ UNCHANGED <<profile, probe, now, events, isRunning, monitorInterval, startTime,
                   lastActivity, browserPool, timers, browserVars, starts, stops,
                   ticks>>

\* The delay after an application has elapsed: the loop goes on.
SV_batch_next(b) ==
    /\ SV
    /\ batches[b].pc = "delay"
    /\ SV_iterate(b, batches[b].i + 1)
    /\ UNCHANGED <<profile, probe, notifications, now, events, isRunning, monitorInterval, startTime, stats,
                   browserPool, timers, dbVars, browserVars, starts, stops, ticks>>

\* ------------------------------------------------------------------------
\* getStats
\* ------------------------------------------------------------------------
\* A variant of getStats whose total leaves italy out.
getStats_spainOnly ==
    [spain |-> stats["spain"], italy |-> stats["italy"],
     total |-> [checks |-> stats["spain"].checks,
                slotsFound |-> stats["spain"].slotsFound,
                bookings |-> stats["spain"].bookings]]

\* getStats(): the per-country counters and their total.
getStats ==
    [spain |-> stats["spain"], italy |-> stats["italy"],
     total |-> [checks |-> stats["spain"].checks + stats["italy"].checks,
                slotsFound |-> stats["spain"].slotsFound + stats["italy"].slotsFound,
                bookings |-> stats["spain"].bookings + stats["italy"].bookings]]

\* ------------------------------------------------------------------------
\* attemptBooking
\* ------------------------------------------------------------------------
\* fillApplicationForm(): the fields that get typed.  A field without a
\* value is passed over; a field the page does not show makes
\* waitForSelector throw, which the catch of the loop body swallows.
fillApplicationForm(page) == {f \in Fields : f \in page.values /\ f \in page.present}

\* The try block of attemptBooking(): the click on the slot (throws when
\* it fails), the form, the booking control (false when missing, its click
\* may throw), the wait for the confirmation, whose timeout the inner catch
\* turns into false.
attemptBooking_try(page) ==
    IF ~page.slotClick
    THEN [raised |-> TRUE, value |-> FALSE, typed |-> {}]
    ELSE LET typed == fillApplicationForm(page)
         IN IF page.bookingButton = "missing"
            THEN [raised |-> FALSE, value |-> FALSE, typed |-> typed]
            ELSE IF page.bookingButton = "click_fails"
            THEN [raised |-> TRUE, value |-> FALSE, typed |-> typed]
            ELSE [raised |-> FALSE, value |-> page.confirmation, typed |-> typed]

\* A variant of attemptBooking without the outer catch.
attemptBooking_noCatch(page) == attemptBooking_try(page)

\* attemptBooking(): the outer catch turns every exception of the try
\* block into false.
attemptBooking(page) ==
    LET tried == attemptBooking_try(page)
    IN IF tried.raised THEN [tried EXCEPT !.raised = FALSE, !.value = FALSE]
       ELSE tried

\* attemptBooking() is called on the page of the probe.
Booking_attempt ==
    /\ probe.pc = "ready"
    /\ probe' = [probe EXCEPT !.pc = "returned", !.outcome = attemptBooking(probe.page)]
    /\ UNCHANGED <<profile, now, engineVars, dbVars, notifications, browserVars, procVars>>

\* ------------------------------------------------------------------------
\* checkAppointmentSlots
\* ------------------------------------------------------------------------
\* The texts and class names an element matched by the availableSlots
\* selector has in the pages considered, in lower case.
Texts == {"", "no slots", "unavailable", "not available", "available",
          "book now", "select"}
Classes == {"", "disabled", "unavailable", "available", "no-slots"}
Elements == [disabled : BOOLEAN, text : Texts, classes : Classes]

MaxSlots == 2

\* The sets of at most n elements.
RECURSIVE SlotSets(_)
SlotSets(n) ==
    IF n = 0 THEN {{}}
    ELSE LET fewer == SlotSets(n - 1)
         IN fewer \cup {S \cup {slot} : S \in fewer, slot \in Elements}

\* The appointment page: how page.goto() ends, whether the content holds
\* a throttling marker, and the elements the selector matches.
SlotPages ==
    [goto : {"ok", "fails"}, throttled : BOOLEAN, slots : SlotSets(MaxSlots)]

\* String.prototype.includes(), on the strings above.
includes(str, m) ==
    \/ str = m
    \/ m = ""
    \/ str = "unavailable" /\ m = "available"
    \/ str = "not available" /\ m = "available"
    \/ str = "book now" /\ m = "book"

\* The predicate checkAppointmentSlots() hands to Array.prototype.some().
slotIsOpen_anyText(slot) ==
    /\ ~slot.disabled
    /\ ~includes(slot.text, "no slots")
    /\ ~includes(slot.text, "unavailable")
    /\ ~includes(slot.classes, "disabled")
    /\ ~includes(slot.classes, "unavailable")
    /\ \/ includes(slot.text, "available")
       \/ includes(slot.text, "book")
       \/ includes(slot.text, "select")

slotIsOpen(slot) ==
    /\ ~slot.disabled
    /\ ~includes(slot.text, "no slots")
    /\ ~includes(slot.text, "unavailable")
    /\ ~includes(slot.text, "not available")
    /\ ~includes(slot.classes, "disabled")
    /\ ~includes(slot.classes, "unavailable")
    /\ \/ includes(slot.text, "available")
       \/ includes(slot.text, "book")
       \/ includes(slot.text, "select")

\* checkAppointmentSlots(): page.goto() may throw; server.js throws when
\* the content holds a throttling marker; then the evaluation over the
\* matched elements.  The catch of visa-monitor.js returns false, that of
\* server.js rethrows.
checkAppointmentSlots(page) ==
    LET threw == page.goto = "fails" \/ (SV /\ page.throttled)
    IN IF threw
       THEN [raised |-> SV, value |-> FALSE, typed |-> {}]
       ELSE [raised |-> FALSE, value |-> \E slot \in page.slots : slotIsOpen(slot),
             typed |-> {}]

\* The try block of a check is run on the inputs of the probe.
Check_run ==
    /\ probe.pc = "ready"
    /\ probe' = [probe EXCEPT !.pc = "returned",
                              !.outcome = processApplication_try(probe.page)]
    /\ UNCHANGED <<profile, now, engineVars, dbVars, notifications, browserVars, procVars>>

\* checkAppointmentSlots() is called on the page of the probe.
Slots_check ==
    /\ probe.pc = "ready"
    /\ probe' = [probe EXCEPT !.pc = "returned",
                              !.outcome = checkAppointmentSlots(probe.page)]
    /\ UNCHANGED <<profile, now, engineVars, dbVars, notifications, browserVars, procVars>>

\* ------------------------------------------------------------------------
\* Specifications
\* ------------------------------------------------------------------------
InitBooking ==
    /\ InitEngine
    /\ \E page \in BookingPages :
         probe = [pc |-> "ready", page |-> page, outcome |-> NoOutcome]

NextBooking == Booking_attempt

SpecBooking == InitBooking /\ [][NextBooking]_vars

InitSlots ==
    /\ InitEngine
    /\ getActiveApplications = <<>>
    /\ \E page \in SlotPages :
         probe = [pc |-> "ready", page |-> page, outcome |-> NoOutcome]

NextSlots == Slots_check

SpecSlots == InitSlots /\ [][NextSlots]_vars

InitCheck ==
    /\ InitEngine
    /\ getActiveApplications = <<>>
    /\ \E inp \in CheckInputs :
         probe = [pc |-> "ready", page |-> inp, outcome |-> NoOutcome]

NextCheck == Check_run

SpecCheck == InitCheck /\ [][NextCheck]_vars

Next ==
    \/ \E c \in StartIds : start_enter(c)
    \/ \E c \in StartIds : start_fetch(c)
    \/ \E c \in StartIds : VM_testBrowserCapability(c)
    \/ \E c \in StartIds : VM_initializeBrowserPool(c)
    \/ \E c \in StartIds : SV_initializeBrowserPool(c)
    \/ \E c \in StartIds : SV_start_delay(c)
    \/ \E c \in StopIds : VM_stop(c)
    \/ \E c \in StopIds : VM_stop_close(c)
    \/ \E c \in StopIds : SV_stop(c)
    \/ \E c \in StopIds : SV_stop_close(c)
    \/ \E k \in TickIds : timer_fire(k)
    \/ \E k \in TickIds : VM_tick_fetch(k)
    \/ \E k \in TickIds : VM_tick_gap(k)
    \/ \E k \in TickIds : SV_tick_fetch(k)
    \/ \E b \in BatchIds : VM_check(b)
    \/ \E b \in BatchIds : VM_batch_next(b)
    \/ \E b \in BatchIds : SV_batch_start(b)
    \/ \E b \in BatchIds : SV_check(b)
    \/ \E b \in BatchIds : SV_batch_next(b)


Spec == Init /\ [][Next]_vars

\* The cloud profile of visa-monitor.js, the build that marks its pool
\* entries in use, with batches that progress: every step of a check ends,
\* by its own timeout at the latest, and the delays of a batch elapse.
InitCloud == Init /\ isCloud

VM_Next ==
    \/ \E c \in StartIds : start_enter(c)
    \/ \E c \in StartIds : start_fetch(c)
    \/ \E c \in StartIds : VM_testBrowserCapability(c)
    \/ \E c \in StartIds : VM_initializeBrowserPool(c)
    \/ \E c \in StopIds : VM_stop(c)
    \/ \E c \in StopIds : VM_stop_close(c)
    \/ \E k \in TickIds : timer_fire(k)
    \/ \E k \in TickIds : VM_tick_fetch(k)
    \/ \E k \in TickIds : VM_tick_gap(k)
    \/ \E b \in BatchIds : VM_check(b)
    \/ \E b \in BatchIds : VM_batch_next(b)

BatchesProgress ==
    \A b \in BatchIds : WF_vars(VM_check(b)) /\ WF_vars(VM_batch_next(b))

FairSpec == InitCloud /\ [][VM_Next]_vars /\ BatchesProgress

\* ------------------------------------------------------------------------
\* Claims
\* ------------------------------------------------------------------------
\* A batch holds a lease: visa-monitor.js from getAvailableBrowser() to
\* releaseBrowser(), server.js from getNextBrowser() to the end of the check.
Holds(b) == IF VM THEN batches[b].pc \in {"check", "delay"} ELSE InFlight(b)

\* C1: in every reachable state a browser lease is used by at most one
\* in-flight application check.
C1_LeaseUsedByOneCheck ==
    \A b1, b2 \in BatchIds :
        (b1 # b2 /\ InFlight(b1) /\ InFlight(b2))
            => batches[b1].lease # batches[b2].lease

\* C2: a lease returned by an acquire made while some lease was Idle is in
\* use, and no other acquire returns it until it is released.
C2_IdleAcquireIsExclusive ==
    \A b1 \in BatchIds :
        (Holds(b1) /\ batches[b1].idle)
            => /\ \A b2 \in BatchIds \ {b1} :
                    Holds(b2) => batches[b2].lease # batches[b1].lease
               /\ VM => \A k \in DOMAIN browserPool :
                            browserPool[k].id = batches[b1].lease
                                => browserPool[k].inUse

\* ---- C3 ----------------------------------------------------------------
\* Batch b takes a browser from its country's pool in this step.
SV_acquires(b) ==
    /\ SV
    /\ batches[b].pc \in {"scheduled", "delay"}
    /\ batches'[b].pc = "check"

RateLimitedIn(pool, id) ==
    \E k \in DOMAIN pool : pool[k].id = id /\ pool[k].rateLimited
AvailableIn(pool, id) ==
    \E k \in DOMAIN pool : pool[k].id = id /\ ~pool[k].rateLimited

\* The lease returns to the non-rate-limited state only in an acquire.
C3_LazyReset ==
    \A co \in Countries : \A id \in Ids(browserPools[co]) :
        (RateLimitedIn(browserPools[co], id) /\ AvailableIn(browserPools'[co], id))
            => \E b \in BatchIds : b[2] = co /\ SV_acquires(b)

\* C3 (as stated): a lease rate limited at T with cooldown C is not taken by
\* the idle-preference path of an acquire made before T+C, and can be taken
\* by that path in an acquire made at or after T+C, T+C included; it becomes
\* non-rate-limited again only when an acquire considers it.
C3_CooldownInclusive ==
    [][/\ \A b \in BatchIds : SV_acquires(b) =>
            \A k \in DOMAIN browserPools[b[2]] :
                LET l == browserPools[b[2]][k]
                IN l.rateLimited =>
                    /\ now < l.rateLimitedUntil + cooldownPeriod
                         => /\ ~(batches'[b].idle /\ batches'[b].lease = l.id)
                            /\ RateLimitedIn(browserPools'[b[2]], l.id)
                    /\ now >= l.rateLimitedUntil + cooldownPeriod
                         => AvailableIn(browserPools'[b[2]], l.id)
       /\ C3_LazyReset]_vars

\* C3 (amended): the lease is not taken by the idle-preference path of an
\* acquire made at or before T+C, and can be taken by that path in an
\* acquire made strictly after T+C; it becomes non-rate-limited again only
\* when an acquire considers it.
C3_CooldownStrict ==
    [][/\ \A b \in BatchIds : SV_acquires(b) =>
            \A k \in DOMAIN browserPools[b[2]] :
                LET l == browserPools[b[2]][k]
                IN l.rateLimited =>
                    /\ now <= l.rateLimitedUntil + cooldownPeriod
                         => /\ ~(batches'[b].idle /\ batches'[b].lease = l.id)
                            /\ RateLimitedIn(browserPools'[b[2]], l.id)
                    /\ now > l.rateLimitedUntil + cooldownPeriod
                         => AvailableIn(browserPools'[b[2]], l.id)
       /\ C3_LazyReset]_vars

\* A lease that was rate limited is taken again by the idle-preference path:
\* the only lease of a pool that no stop() has touched, in a pool for which
\* a rate limit was logged.
C3_Witness ==
    \E b \in BatchIds :
        /\ SV /\ InFlight(b) /\ batches[b].idle
        /\ logActivity(NULL, b[2], "BROWSER_RATE_LIMITED") \in activity_logs
        /\ Len(browserPools[b[2]]) = 1
        /\ browserPools[b[2]][1].id = batches[b].lease
        /\ \A c \in StopIds : stops[c].pc = "idle"

\* ---- C4 ----------------------------------------------------------------
\* C4: in a batch [A, B] where A's check raised an exception, a failure
\* entry for A is in the activity log once A's iteration has ended, and B
\* is processed: when the batch has ended B's attempts were incremented.
C4_RaisedCheckIsLogged ==
    \A b \in BatchIds : \A a \in batches[b].raised :
        /\ logActivity(a, b[2], "PROCESSING_ERROR") \in activity_logs
        /\ batches[b].pc = "done"
              => \A k \in DOMAIN batches[b].applications :
                    attempts[batches[b].applications[k]] > 0

\* ---- C5 ----------------------------------------------------------------
\* C5: a start() that got an empty list of active applications has failed
\* at once: it went no further, created no browser and started no timer.
C5_EmptyListFailsStart ==
    \A c \in StartIds :
        /\ starts[c].pc \in {"test", "create", "delay", "ok", "failed_browser"}
              => starts[c].apps # <<>>
        /\ starts[c].pc = "failed_noapps"
              => /\ starts[c].created = 0
                 /\ \A id \in launched : id[1] # c
                 /\ c \notin timers /\ monitorInterval # c

C5_Witness == \E c \in StartIds : starts[c].pc = "failed_noapps"

\* ---- C6 ----------------------------------------------------------------
StartFailed(c) == starts[c].pc \in {"failed_noapps", "failed_browser"}

\* C6: when start() fails for a startup error the engine is stopped: the
\* running flag is false and no site is reported active.
C6_FailedStartLeavesStopped ==
    [][\A c \in StartIds :
          (~StartFailed(c) /\ StartFailed(c)')
              => (~isRunning' /\ getActiveCountries' = {})]_vars

\* ---- C7 ----------------------------------------------------------------
\* start() call c got to initialize a pool.
PoolInitialized(c) ==
    /\ starts[c].pc \in {"create", "delay", "ok"}
    /\ VM \/ \E co \in Countries : AppsOf(starts[c].apps, co) # <<>>

\* C7: a start() all of whose browser creations failed does not succeed,
\* and its timer is not started.
C7_NoBrowserFailsStart ==
    \A c \in StartIds :
        PoolInitialized(c) =>
            /\ starts[c].pc = "ok" => starts[c].created > 0
            /\ starts[c].created = 0 => (c \notin timers /\ monitorInterval # c)

\* ---- C8 ----------------------------------------------------------------
Initializing(c) == StartInProgress(c) \/ starts[c].pc = "ok"

\* C8: a start() called while the engine is running is rejected and leaves
\* the running flag, the timer, the pool and the start time as they were;
\* while a start() is in progress and no stop() has intervened, no later
\* start() gets to initialize a pool or to start a timer.
C8_StartWhileRunningRejected ==
    [][/\ \A c \in StartIds :
            (isRunning /\ starts[c].pc = "idle" /\ starts'[c].pc # "idle")
                => /\ starts'[c].pc = "rejected"
                   /\ UNCHANGED <<isRunning, monitorInterval, timers, browserPool,
                                  browserPools, startTime>>
       /\ \A c1, c2 \in StartIds :
            (c1 < c2 /\ StartInProgress(c1)' /\ ~starts'[c1].viaStop)
                => ~Initializing(c2)']_vars

\* A second start() was rejected while the first was still in progress.
C8_Witness ==
    \E c1, c2 \in StartIds :
        c1 < c2 /\ StartInProgress(c1) /\ starts[c2].pc = "rejected"

\* ---- C9 ----------------------------------------------------------------
\* C9: a stop() called when the engine is not running (a second stop() in a
\* row, or a stop() before any start()) returns at once: it closes no
\* browser and changes no field of the engine.
C9_StopWhenStoppedIsNoOp ==
    [][\A c \in StopIds :
          (~isRunning /\ stops[c].pc = "idle" /\ stops'[c].pc # "idle")
              => /\ stops'[c].pc = "noop"
                 /\ UNCHANGED <<engineVars, dbVars, browserVars, starts>>]_vars

\* A second stop() in a row returned at once while the pool still held
\* browsers.
C9_Witness ==
    \E c \in StopIds :
        /\ c > 1 /\ stops[c].pc = "noop" /\ stops[c - 1].pc \in {"closing", "done"}
        /\ (browserPool # <<>> \/ \E co \in Countries : browserPools[co] # <<>>)

\* ---- C10 ---------------------------------------------------------------
\* The start() call whose run stop() call c ends.
RunOf(c) ==
    LET S == {s \in StartIds : s < c /\ starts[s].pc \notin {"idle", "rejected"}}
    IN IF S = {} THEN 0 ELSE CHOOSE s \in S : \A r \in S : r <= s

\* C10: when a stop() of a running engine returns, the timer is cancelled,
\* close() has been invoked on every lease created in the run (also when
\* some close() failed) and the pool is empty.
C10_StopTearsDown ==
    [][\A c \in StopIds :
          (stops[c].pc \in {"idle", "closing"} /\ stops'[c].pc = "done")
              => /\ timers' = {} /\ monitorInterval' = NULL
                 /\ browserPool' = <<>>
                 /\ \A co \in Countries : browserPools'[co] = <<>>
                 /\ \A id \in launched' :
                       (id[1] = RunOf(c) /\ id[2] # "test")
                           => id \in closeInvoked']_vars

\* ---- C11 ---------------------------------------------------------------
\* The pool a batch of country co takes its browser from.
PoolOf(co) == IF VM THEN browserPool ELSE browserPools[co]

\* Batch b is the only one that has run so far.
OnlyBatch(b) == \A o \in BatchIds \ {b} : batches[o].pc = "none"

\* C11: with a pool of one lease and two active applications of a site, a
\* tick that has gone through both takes the lease for the first, gives it
\* back, takes it for the second, gives it back, and each application's
\* attempts went up by exactly one.
C11_AcquireReleasePerApplication ==
    \A b \in BatchIds :
        (/\ batches[b].pc = "done"
         /\ Len(batches[b].applications) = 2
         /\ batches[b].i = 2
         /\ Len(PoolOf(b[2])) = 1)
            => /\ batches[b].ops = <<"acquire", "release", "acquire", "release">>
               /\ OnlyBatch(b) => \A k \in 1..2 :
                                      attempts[batches[b].applications[k]] = 1

\* ---- C12 ---------------------------------------------------------------
\* The check of application a in batch b has returned.
CheckEnded(b, a) ==
    \E k \in DOMAIN batches[b].applications :
        /\ batches[b].applications[k] = a
        /\ \/ k < batches[b].i
           \/ k = batches[b].i /\ batches[b].pc \in {"delay", "done"}

\* C12: the attempts of an application count the checks of it that have
\* returned, one per batch that processed it, whatever the check's outcome.
C12_AttemptsOncePerCheck ==
    \A a \in Apps : attempts[a] = Cardinality({b \in BatchIds : CheckEnded(b, a)})

\* A check that threw and one that returned normally have both been counted.
C12_Witness ==
    \E b \in BatchIds : \E a \in batches[b].raised, o \in Apps \ batches[b].raised :
        /\ CheckEnded(b, a) /\ attempts[a] = 1
        /\ CheckEnded(b, o) /\ attempts[o] = 1

\* ---- C13 ---------------------------------------------------------------
\* C13: an application that stays active and whose every poll saw the
\* same availability has slots_found at most 1, and a site all of whose
\* polls were such has a slotsFound statistic of at most one per
\* application.
C13_SlotsFoundOncePerDetection ==
    /\ \A a \in Apps :
          (status[a] = "active" /\ attempts[a] > 0 /\ slots_found[a] = attempts[a])
              => slots_found[a] <= 1
    /\ \A co \in Countries :
          (\A a \in Apps : (country[a] = co /\ attempts[a] > 0)
                              => status[a] = "active" /\ slots_found[a] = attempts[a])
              => stats[co].slotsFound
                    <= Cardinality({a \in Apps : country[a] = co /\ slots_found[a] > 0})

\* ---- C14 ---------------------------------------------------------------
\* C14: once the check of a batch has returned, no page it opened is left
\* without a close().
C14_PageClosedOnEveryPath ==
    \A b \in BatchIds : ~InFlight(b) => ~batches[b].page

\* ---- C15 ---------------------------------------------------------------
\* C15: the step in which a check meets the throttling marker evaluates no
\* slot and books nothing, leaves the lease it used marked rate limited,
\* leaves the application's status as it was and adds nothing to the
\* site's statistics.
C15_ThrottledCheckMarksLease ==
    [][\A b \in BatchIds :
          (SV /\ InFlight(b) /\ CurrentApp(b) \in batches'[b].throttled)
              => /\ slots_found' = slots_found
                 /\ status' = status
                 /\ stats' = stats
                 /\ RateLimitedIn(browserPools'[b[2]], batches[b].lease)]_vars

\* ---- C16 ---------------------------------------------------------------
\* C16: no step adds or removes an application; a status only changes
\* from active to completed, in a step that counts a booking of the
\* application's site and logs BOOKING_SUCCESS for it; the step in which a
\* check throws or meets the throttling marker leaves the application
\* active, hence among the rows of getActiveApplications.
C16_StatusOnlyCompletedByBooking ==
    [][/\ DOMAIN status' = DOMAIN status
       /\ \A a \in Apps :
             status'[a] # status[a]
                 => /\ status[a] = "active" /\ status'[a] = "completed"
                    /\ stats'[country[a]].bookings = stats[country[a]].bookings + 1
                    /\ logActivity(a, country[a], "BOOKING_SUCCESS") \in activity_logs'
       /\ \A b \in BatchIds :
             (InFlight(b) /\ CurrentApp(b) \in batches'[b].raised \cup batches'[b].throttled)
                 => /\ status'[CurrentApp(b)] = status[CurrentApp(b)]
                    /\ status[CurrentApp(b)] = "active"
                           => \E k \in DOMAIN getActiveApplications' :
                                  getActiveApplications'[k] = CurrentApp(b)]_vars

\* One application was completed by a booking and another, whose check
\* threw, is still active.
C16_Witness ==
    \E b \in BatchIds : \E a \in batches[b].raised, o \in Apps :
        /\ status[a] = "active" /\ attempts[a] > 0
        /\ status[o] = "completed" /\ attempts[o] > 0
        /\ logActivity(o, country[o], "BOOKING_SUCCESS") \in activity_logs

\* ---- C17 ---------------------------------------------------------------
\* C17: once a timer callback has gone through the active applications, an
\* active application whose country is none of the configured ones has
\* been reported: its attempts were counted or the activity log has an
\* entry of it or of its country.
C17_UnknownCountryIsReported ==
    \A k \in TickIds :
        ticks[k].pc = "done"
            => \A a \in Apps :
                  (status[a] = "active" /\ country[a] \notin Countries)
                      => \/ attempts[a] > 0
                         \/ \E l \in activity_logs : l.app = a \/ l.country = country[a]

\* ---- C18 ---------------------------------------------------------------
\* C18: getActiveCountries() returns the countries whose pool holds a
\* browser, and no other.
C18_ActiveCountriesHavePools ==
    getActiveCountries = {co \in Countries : Len(PoolOf(co)) > 0}

\* ---- C19 ---------------------------------------------------------------
StatFields == {"checks", "slotsFound", "bookings"}

\* The sum of field f of the statistics st over the countries of S.
RECURSIVE SumOver(_, _, _)
SumOver(S, st, f) ==
    IF S = {} THEN 0
    ELSE LET co == CHOOSE x \in S : TRUE
         IN st[co][f] + SumOver(S \ {co}, st, f)

\* C19: after every step getStats() returns each country's counters and a
\* total whose every field is the sum of the field over the countries; no
\* step, a stop() included, makes a counter smaller.
C19_StatsSumAndGrow ==
    [][/\ \A co \in Countries : getStats'[co] = stats'[co]
       /\ \A f \in StatFields : getStats'.total[f] = SumOver(Countries, stats', f)
       /\ \A co \in Countries, f \in StatFields : stats'[co][f] >= stats[co][f]]_vars

\* Both countries have counted a check and a stop() has returned.
C19_Witness ==
    /\ \E c \in StopIds : stops[c].pc = "done"
    /\ \A co \in Countries : stats[co].checks > 0
    /\ getStats.total.checks = 2

\* ---- C20 ---------------------------------------------------------------
\* C20: attemptBooking() returns a boolean and never throws, whatever the
\* page: it returns true exactly when the slot was clicked, the booking
\* button was there and clicked and the confirmation appeared; a field
\* with no value or absent from the form is skipped and the others typed.
C20_BookingReturnsBoolean ==
    probe.pc = "returned"
        => LET page == probe.page
               r == probe.outcome
           IN /\ ~r.raised
              /\ r.value \in BOOLEAN
              /\ r.value <=> (/\ page.slotClick
                              /\ page.bookingButton = "present"
                              /\ page.confirmation)
              /\ r.typed = IF page.slotClick THEN page.values \cap page.present ELSE {}

\* A booking confirmed with a field skipped, which a missing field does
\* not prevent.
C20_Witness ==
    /\ probe.pc = "returned"
    /\ probe.outcome.value
    /\ probe.page.values \ probe.page.present # {}

\* ---- C21 ---------------------------------------------------------------
AvailabilityMarkers == {"available", "book", "select"}

\* C21 (as stated): checkAppointmentSlots() returns true exactly when some
\* matched element is not disabled, has no "unavailable" or "no slots"
\* marker in its text or class and has an availability marker in its text
\* or class; false when there is none, or no element at all.
C21_OpenByTextOrClass ==
    (probe.pc = "returned" /\ ~probe.outcome.raised /\ probe.page.goto = "ok")
        => (probe.outcome.value <=>
               \E slot \in probe.page.slots :
                   /\ ~slot.disabled
                   /\ \A str \in {slot.text, slot.classes} :
                         ~includes(str, "unavailable") /\ ~includes(str, "no slots")
                   /\ \E str \in {slot.text, slot.classes}, m \in AvailabilityMarkers :
                         includes(str, m))

\* C21 (amended): it returns true exactly when some matched element has
\* neither the disabled attribute nor "disabled" in its class, has none
\* of "no slots", "unavailable", "not available" in its text nor
\* "unavailable" in its class, and has an availability marker in its text.
C21_OpenByText ==
    (probe.pc = "returned" /\ ~probe.outcome.raised /\ probe.page.goto = "ok")
        => (probe.outcome.value <=>
               \E slot \in probe.page.slots :
                   /\ ~slot.disabled /\ ~includes(slot.classes, "disabled")
                   /\ \A m \in {"no slots", "unavailable", "not available"} :
                         ~includes(slot.text, m)
                   /\ ~includes(slot.classes, "unavailable")
                   /\ \E m \in AvailabilityMarkers : includes(slot.text, m))

\* A page with an element that says "not available" next to one that can
\* be booked: true is returned on account of the second.
C21_Witness ==
    /\ probe.pc = "returned"
    /\ probe.outcome.value
    /\ \E slot \in probe.page.slots : slot.text = "not available"
    /\ \E slot \in probe.page.slots : slot.text = "book now"

\* ---- C22 ---------------------------------------------------------------
\* Batch b takes a browser in this step, and no other batch does.
Acquires(b) ==
    /\ batches'[b].ops = Append(batches[b].ops, "acquire")
    /\ \A o \in BatchIds \ {b} : batches'[o].ops = batches[o].ops

\* The pool entries an acquire for country co finds Idle: in
\* visa-monitor.js those not marked in use; in server.js, which keeps no
\* such mark, those not rate limited (once the filter has visited them)
\* that no check in flight is using.
IdleEntries(co) ==
    IF VM THEN {k \in DOMAIN browserPool : ~browserPool[k].inUse}
    ELSE LET visited == SV_filtered(browserPools[co], now)
         IN {k \in DOMAIN visited :
                /\ ~visited[k].rateLimited
                /\ \A o \in BatchIds : InFlight(o) => batches[o].lease # visited[k].id}

\* C22: an acquire made while some lease of the site is Idle returns an
\* Idle lease of the site, one with the smallest lastUsed among them, and
\* leaves it in use.
C22_AcquireReturnsLeastRecentIdle ==
    [][\A b \in BatchIds :
          (Acquires(b) /\ IdleEntries(b[2]) # {})
              => LET pool == PoolOf(b[2])
                     got == batches'[b].lease
                 IN /\ \E k \in IdleEntries(b[2]) :
                          /\ pool[k].id = got
                          /\ \A j \in IdleEntries(b[2]) : pool[k].lastUsed <= pool[j].lastUsed
                    /\ SV => got[2] = b[2]
                    /\ VM => \E k \in DOMAIN browserPool' :
                                browserPool'[k].id = got /\ browserPool'[k].inUse]_vars

\* ---- C23 ---------------------------------------------------------------
\* Batch b asks for a browser in this step.
AsksForBrowser(b) ==
    IF VM THEN batches[b].pc = "none" /\ batches'[b].pc \in {"check", "threw"}
    ELSE /\ batches[b].pc \in {"scheduled", "delay"}
         /\ batches[b].i < Len(batches[b].applications)
         /\ batches'[b].pc \in {"check", "done"}

\* C23: an acquire on a pool that is not empty returns one of its leases
\* in the same step; in server.js, when every lease is rate limited, it is
\* one with the smallest rateLimitedUntil, returned still rate limited.
C23_AcquireNeverFails ==
    [][\A b \in BatchIds :
          (AsksForBrowser(b) /\ Len(PoolOf(b[2])) > 0)
              => /\ batches'[b].pc = "check"
                 /\ batches'[b].lease \in Ids(PoolOf(b[2]))
                 /\ LET visited == SV_filtered(browserPools[b[2]], now)
                    IN (SV /\ \A k \in DOMAIN visited : visited[k].rateLimited)
                          => /\ RateLimitedIn(browserPools'[b[2]], batches'[b].lease)
                             /\ \E k \in DOMAIN visited :
                                   /\ visited[k].id = batches'[b].lease
                                   /\ \A j \in DOMAIN visited :
                                         visited[k].rateLimitedUntil
                                             <= visited[j].rateLimitedUntil]_vars

\* With a pool of one lease, the first application's check was throttled
\* and the second application's check of the same batch runs on that lease.
C23_Witness ==
    \E b \in BatchIds :
        /\ SV /\ InFlight(b) /\ batches[b].i = 2
        /\ batches[b].applications[1] \in batches[b].throttled
        /\ Len(browserPools[b[2]]) = 1
        /\ RateLimitedIn(browserPools[b[2]], batches[b].lease)

\* ---- C24 ---------------------------------------------------------------
\* Batch b gives its browser back in this step, and no batch takes one.
Releases(b) ==
    /\ batches'[b].ops = Append(batches[b].ops, "release")
    /\ \A o \in BatchIds \ {b} : batches'[o].ops = batches[o].ops

\* C24: the release of a lease leaves it not in use with lastUsed set to
\* the time of the release, and leaves every other lease as it was.
C24_ReleaseStampsLease ==
    [][\A b \in BatchIds :
          Releases(b)
              => /\ DOMAIN browserPool' = DOMAIN browserPool
                 /\ \A k \in DOMAIN browserPool :
                       browserPool'[k] =
                           IF browserPool[k].id = batches[b].lease
                           THEN [browserPool[k] EXCEPT !.inUse = FALSE, !.lastUsed = now]
                           ELSE browserPool[k]]_vars

\* ---- C25 ---------------------------------------------------------------
\* The check of batch b meets the throttling marker in this step.
Throttled(b) == SV /\ InFlight(b) /\ CurrentApp(b) \in batches'[b].throttled

\* The pool entries markBrowserRateLimited() is pointed at by the check of
\* batch b: those with the index of the check's lease.
Designated(b) ==
    {k \in DOMAIN browserPools[b[2]] : browserPools[b[2]][k].index = batches[b].lease[3]}

\* The pool of batch b after the marking, the marked entry's
\* rateLimitedUntil being t.
MarkedPool(b, t) ==
    [k \in DOMAIN browserPools[b[2]] |->
        IF k \in Designated(b) /\ \A j \in Designated(b) : k <= j
        THEN [browserPools[b[2]][k] EXCEPT !.rateLimited = TRUE, !.rateLimitedUntil = t]
        ELSE browserPools[b[2]][k]]

\* C25 (as stated): marking a lease rate limited sets its rateLimitedUntil
\* to the time of the marking plus the cooldown, also when it is rate
\* limited already, and changes no other lease.
C25_MarkSetsEndOfCooldown ==
    [][\A b \in BatchIds :
          Throttled(b)
              => /\ browserPools'[b[2]] = MarkedPool(b, now + cooldownPeriod)
                 /\ \A co \in Countries \ {b[2]} :
                       browserPools'[co] = browserPools[co]]_vars

\* C25 (amended): marking a lease rate limited sets its rateLimitedUntil
\* to the time of the marking, also when it is rate limited already, and
\* changes no other lease.
C25_MarkSetsTimeOfMarking ==
    [][\A b \in BatchIds :
          Throttled(b)
              => /\ browserPools'[b[2]] = MarkedPool(b, now)
                 /\ \A co \in Countries \ {b[2]} :
                       browserPools'[co] = browserPools[co]]_vars

\* The only lease of a pool has been marked twice, by the two throttled
\* checks of one batch, the second time after the clock had moved on.
C25_Witness ==
    \E b \in BatchIds :
        /\ SV /\ Cardinality(batches[b].throttled) = 2
        /\ Len(browserPools[b[2]]) = 1
        /\ browserPools[b[2]][1].id = batches[b].lease
        /\ browserPools[b[2]][1].rateLimited
        /\ browserPools[b[2]][1].rateLimitedUntil = now
        /\ browserPools[b[2]][1].lastUsed < now

\* ---- C26 ---------------------------------------------------------------
\* The place of application a among the rows a query returned.
RowOf(rows, a) == CHOOSE k \in DOMAIN rows : rows[k] = a

\* The list apps holds rows of the query result, in the result's order.
InQueryOrder(apps, rows) ==
    \A k1, k2 \in DOMAIN apps :
        k1 < k2 => /\ \E k \in DOMAIN rows : rows[k] = apps[k1]
                   /\ \E k \in DOMAIN rows : rows[k] = apps[k2]
                   /\ RowOf(rows, apps[k1]) < RowOf(rows, apps[k2])

\* C26: the applications of a batch are those of its country in the order
\* getActiveApplications() returned them; a check begins only for the
\* application next in that order, and only when the check before it has
\* returned and its attempts were incremented.
C26_ChecksInQueryOrder ==
    [][\A b \in BatchIds :
          /\ InQueryOrder(batches'[b].applications, ticks'[b[1]].apps)
          /\ (batches'[b].pc = "check" /\ (batches[b].pc # "check" \/ batches'[b].i # batches[b].i))
                => /\ batches'[b].i = batches[b].i + 1
                   /\ batches[b].i >= 1
                         => /\ batches[b].pc = "delay"
                            /\ batches'[b].applications = batches[b].applications
                            /\ CheckEnded(b, CurrentApp(b))
                            /\ attempts[CurrentApp(b)] >= 1
          /\ (InFlight(b) /\ ~(batches'[b].pc = "check"))
                => /\ attempts' = [attempts EXCEPT ![CurrentApp(b)] = @ + 1]
                   /\ batches'[b].i = batches[b].i]_vars

\* The second application of a batch is in its check, the first one's
\* having been counted.
C26_Witness ==
    \E b \in BatchIds :
        /\ InFlight(b) /\ batches[b].i = 2
        /\ attempts[batches[b].applications[1]] = 1
        /\ attempts[batches[b].applications[2]] = 0

\* ---- C27 ---------------------------------------------------------------
\* Batch b has run and given its browser back.
Finished(b) ==
    /\ batches[b].pc = "done"
    /\ batches[b].ops = <<"acquire", "release">>

\* C27: in the cloud profile the italy batch of a timer callback begins
\* only when its spain batch, if there is one, has finished and released
\* its browser, so the two never run together; in the local profile the
\* two batches begin in the same step and the callback ends only when
\* neither is running.
C27_BatchesPerProfile ==
    \A k \in TickIds :
        LET sp == <<k, "spain">>
            it == <<k, "italy">>
            both == /\ Len(AppsOf(ticks[k].apps, "spain")) > 0
                    /\ Len(AppsOf(ticks[k].apps, "italy")) > 0
        IN /\ profile = "cloud"
                => /\ ~(BatchActive(sp) /\ BatchActive(it))
                   /\ (both /\ batches[it].pc # "none") => Finished(sp)
           /\ profile = "local"
                => /\ both => (batches[sp].pc = "none" <=> batches[it].pc = "none")
                   /\ ticks[k].pc = "done" => ~BatchActive(sp) /\ ~BatchActive(it)

\* Cloud profile: the italy batch is in its check, the spain batch of the
\* same callback has released its browser.
C27_Witness ==
    \E k \in TickIds :
        /\ profile = "cloud"
        /\ InFlight(<<k, "italy">>)
        /\ Finished(<<k, "spain">>)

\* ---- C28 ---------------------------------------------------------------
\* The browsers of every pool.
Pooled == Ids(browserPool) \cup UNION {Ids(browserPools[co]) : co \in Countries}

\* A createBrowser() call of start() call c settles in this step.
Creates(c) ==
    /\ starts[c].pc = "create"
    /\ <<starts'[c].pc, starts'[c].country, starts'[c].i>>
           # <<starts[c].pc, starts[c].country, starts[c].i>>

\* C28: a creation of initializeBrowserPool() that fails adds nothing to
\* the pool and start() goes on with the next index, or with what follows
\* the loop, never with the same index and never to a failure; one that
\* succeeds adds its browser; as long as no stop() was called the pools
\* hold exactly the browsers created; and no step outside start() creates
\* a browser.
C28_CreationFailureNotFatal ==
    [][/\ \A c \in StartIds :
             Creates(c)
                 => /\ starts'[c].pc \in {"create", "delay", "ok"}
                    /\ (starts'[c].pc = "create" /\ starts'[c].country = starts[c].country)
                          => starts'[c].i = starts[c].i + 1
                    /\ (starts'[c].pc = "create" /\ starts'[c].country # starts[c].country)
                          => starts'[c].i = 0 /\ starts[c].i + 1 = maxBrowsersPerCountry
                    /\ launched' = launched
                          => /\ browserPool' = browserPool
                             /\ browserPools' = browserPools
                             /\ starts'[c].created = starts[c].created
                    /\ launched' # launched
                          => /\ Pooled' \ Pooled = launched' \ launched
                             /\ starts'[c].created = starts[c].created + 1
       /\ launched' # launched
             => \E c \in StartIds : starts[c].pc \in {"test", "create"}
       /\ (\A c \in StopIds : stops'[c].pc = "idle")
             => Pooled' = {id \in launched' : id[2] # "test"}]_vars

\* A start() has completed with fewer browsers than it tried to create,
\* and a timer callback has run since.
C28_Witness ==
    \E c \in StartIds, k \in TickIds :
        /\ starts[c].pc = "ok"
        /\ starts[c].created > 0
        /\ Cardinality(Pooled) = 1
        /\ profile # "cloud"
        /\ ticks[k].pc = "done"
        /\ \A o \in StopIds : stops[o].pc = "idle"

\* ---- C29 ---------------------------------------------------------------
\* C29: no batch rejects, the pool being empty or not; when a timer
\* callback of visa-monitor.js has ended, each batch it had applications
\* for has gone through all of them and given its browser back.
C29_FailuresContained ==
    \A b \in BatchIds :
        /\ batches[b].pc # "threw"
        /\ (VM /\ ticks[b[1]].pc = "done" /\ AppsOf(ticks[b[1]].apps, b[2]) # <<>>)
              => /\ batches[b].pc = "done"
                 /\ \A k \in DOMAIN batches[b].applications :
                       CheckEnded(b, batches[b].applications[k])
                 /\ batches[b].ops = <<"acquire", "release">>

\* ---- C30 ---------------------------------------------------------------
\* The place of call c among the calls, 0 when it was not made.
CallAt(calls, c) ==
    IF \E k \in DOMAIN calls : calls[k] = c
    THEN CHOOSE k \in DOMAIN calls : calls[k] = c
    ELSE 0

\* C30: a check logs in, then checks the slots, then books: the booking
\* is attempted only after a slot check that returned true and only with
\* auto_book set, markCompleted() is called (and the booking counted) only
\* after an attemptBooking() that returned true, and after a login that
\* failed no slot check is made.
C30_LoginSlotsBooking ==
    probe.pc = "returned"
        => LET inp == probe.page
               calls == probe.outcome.calls
               login == CallAt(calls, "loginToSite")
               slots == CallAt(calls, "checkAppointmentSlots")
               booking == CallAt(calls, "attemptBooking")
               completed == CallAt(calls, "markCompleted")
           IN /\ slots > 0 => 0 < login /\ login < slots /\ inp.login = "ok"
              /\ booking > 0 => /\ 0 < slots /\ slots < booking
                                /\ inp.slots = "true" /\ inp.auto_book
              /\ completed > 0 => 0 < booking /\ booking < completed /\ inp.booking
              /\ probe.outcome.outcome = "booked" <=> completed > 0
              /\ inp.login = "fails" => slots = 0

\* A check on a page whose login fails although slots are there, and
\* which ended at the login.
C30_Witness ==
    /\ probe.pc = "returned"
    /\ probe.page.login = "fails" /\ probe.page.slots = "true"
    /\ probe.page.newPage /\ probe.page.configure
    /\ probe.outcome.outcome = "login_failed"

\* ---- C31 ---------------------------------------------------------------
\* The run profile is interactive: the login waits for an operator to solve
\* a CAPTCHA (visa-monitor.js unless isCloud, server.js always).
Interactive == VM => ~isCloud

Alert(a, eventType) == [app |-> a, country |-> country[a], event |-> eventType]

\* C31: a check that saw slots, and one whose booking was confirmed, leaves
\* its entry in the activity log in every profile; the alert of the event
\* is emitted when the profile is interactive, and no alert is ever emitted
\* when it is not.
C31_LogAlwaysAlertWhenInteractive ==
    [][/\ \A a \in Apps :
            /\ slots_found'[a] # slots_found[a]
                  => /\ logActivity(a, country[a], "SLOTS_FOUND") \in activity_logs'
                     /\ Interactive <=> Alert(a, "slots_found") \in notifications'
            /\ (status[a] = "active" /\ status'[a] = "completed")
                  => /\ logActivity(a, country[a], "BOOKING_SUCCESS") \in activity_logs'
                     /\ Interactive <=> Alert(a, "booking_success") \in notifications'
       /\ ~Interactive => notifications' = {}]_vars

\* In the non-interactive profile a booking was confirmed and logged, and
\* no alert was emitted.
C31_Witness ==
    /\ ~Interactive
    /\ \E a \in Apps :
          /\ status[a] = "completed" /\ slots_found[a] > 0
          /\ logActivity(a, country[a], "BOOKING_SUCCESS") \in activity_logs
    /\ notifications = {}

\* ---- C32 ---------------------------------------------------------------
\* C32: batches of two timer callbacks are never under way at once for the
\* same site, and no application has two checks in flight.
C32_TicksDoNotOverlap ==
    /\ \A k1, k2 \in TickIds : \A co \in Countries :
          (k1 # k2 /\ BatchActive(<<k1, co>>)) => ~BatchActive(<<k2, co>>)
    /\ \A b1, b2 \in BatchIds :
          (b1 # b2 /\ InFlight(b1) /\ InFlight(b2)) => CurrentApp(b1) # CurrentApp(b2)

\* ---- C33 ---------------------------------------------------------------
\* C33: a batch that gives a browser back gives back one that no other
\* batch has a check in flight on.
C33_ReleaseOnlyByHolder ==
    [][\A b \in BatchIds :
          Releases(b)
              => \A o \in BatchIds \ {b} :
                    InFlight(o) => batches[o].lease # batches[b].lease]_vars

\* ---- C34 ---------------------------------------------------------------
\* A stop() of the running engine has returned and start() was not called
\* since.
StopReturned == ~isRunning /\ \E c \in StopIds : stops[c].pc = "done"

\* The check of an application begins in this step, in batch b.
StartsCheck(b) == batches[b].pc # "check" /\ batches'[b].pc = "check"

\* C34: once stop() has returned no batch begins the check of another
\* application and no batch takes a browser.
C34_NoCheckAfterStop ==
    [][StopReturned
          => \A b \in BatchIds :
                /\ ~StartsCheck(b)
                /\ batches'[b].ops = batches[b].ops
                      \/ batches'[b].ops = Append(batches[b].ops, "release")]_vars

\* ---- C35 ---------------------------------------------------------------
\* C35: a batch that is under way comes to its end, and whenever no batch
\* is under way no entry of the pool is marked in use.
C35_LeasesReleased ==
    /\ \A b \in BatchIds : BatchActive(b) ~> ~BatchActive(b)
    /\ []((\A b \in BatchIds : ~BatchActive(b))
            => \A k \in DOMAIN browserPool : ~browserPool[k].inUse)

\* A batch that took its browser through the not-in-use path has ended,
\* no batch is under way, and the browser is in the pool, not in use.
C35_Witness ==
    /\ \A b \in BatchIds : ~BatchActive(b)
    /\ \E b \in BatchIds :
          /\ batches[b].pc = "done" /\ batches[b].idle
          /\ \E k \in DOMAIN browserPool :
                browserPool[k].id = batches[b].lease /\ ~browserPool[k].inUse

\* ---- C36 ---------------------------------------------------------------
\* No start() and no stop() is between two of its awaits.
Quiescent ==
    \A c \in EventIds : ~StartInProgress(c) /\ stops[c].pc # "closing"

\* C36: once the start() and stop() calls made so far have returned, an
\* engine that is not running has no live timer and empty pools, and a
\* live timer belongs to an engine that is running.
C36_RunningTimerPool ==
    Quiescent
        => /\ ~isRunning => /\ timers = {} /\ monitorInterval = NULL
                            /\ browserPool = <<>>
                            /\ \A co \in Countries : browserPools[co] = <<>>
           /\ timers # {} => isRunning

\* ---- C37 ---------------------------------------------------------------
\* C37: no pool holds more browsers than its maximum, and once the start()
\* and stop() calls made so far have returned every browser that was
\* launched is in a pool or had close() invoked on it.
C37_PoolBoundedNoLeak ==
    /\ VM => Len(browserPool) <= maxBrowsers
    /\ SV => \A co \in Countries : Len(browserPools[co]) <= maxBrowsersPerCountry
    /\ Quiescent
          => \A id \in launched :
                \/ id \in closeInvoked
                \/ id \in Ids(browserPool)
                \/ \E co \in Countries : id \in Ids(browserPools[co])

\* ---- C38 ---------------------------------------------------------------
\* The check of batch b ends in this step with a confirmed booking.
Books(b) ==
    /\ InFlight(b) /\ batches'[b] # batches[b]
    /\ stats'[b[2]].bookings # stats[b[2]].bookings

\* C38: a booking is confirmed, and counted, only for an application that
\* is not completed yet, and no check begins for a completed application.
C38_BookedAtMostOnce ==
    [][\A b \in BatchIds :
          /\ Books(b) => status[CurrentApp(b)] = "active"
          /\ StartsCheck(b)
                => status[batches'[b].applications[batches'[b].i]] = "active"]_vars

====
